---- MODULE Spec2Model ----
(***************************************************************************)
(* Trace-Extractor: reconstruction of Cursor conversations from bubbles.   *)
(*                                                                         *)
(* The model follows src/extension.js, which holds two definitions of      *)
(* reconstructConversation: the current one (lines 352-710) and an older   *)
(* one (lines 907-1152), and src/src/extractor.js (parseMessageContent).   *)
(*                                                                         *)
(* Representation of JavaScript values                                     *)
(*   - a string is a sequence of lines (joined by "\n"); <<>> is the empty *)
(*     string, so a string is truthy iff it is not <<>>;                   *)
(*   - a parsed JSON value is a record [kind, map]: kind is "obj", "arr",  *)
(*     "null", "num" or "str", map holds the properties of an object;      *)
(*   - the text of rawArgs is kept by its token structure: its form (which *)
(*     JSON value it spells, or how it is malformed), the quoted           *)
(*     "key":"value" pairs in it and the other words found in it;          *)
(*   - a message text is a sequence of markup segments.                    *)
(***************************************************************************)
EXTENDS Integers, Sequences, FiniteSets, TLC

VARIABLES
    given,          \* the bubbles as extracted from the store, before any call
    bubbles,        \* composerBubbles in Object.entries order: Seq of bubbles
    composerData,   \* the metadata record of the conversation
    tables,         \* checkpoints[composerId] and codeDiffs[composerId]
    pending,        \* the calls the caller still makes, in order
    calls,          \* results of the calls of reconstructConversation so far
    legacy,         \* results of the calls of the older definition so far
    snapshot,       \* the data store: what reaching it fails on, and its rows
    recent,         \* results of the calls of getRecentConversations so far
    store,          \* which files of the data store are on disk
    disk,           \* the temporary files on disk: <<tempDbPath, suffix>>
    proc,           \* the calls of extractCursorDiskKV: where each one is
    now,            \* what Date.now() returns
    uiMessages,     \* the UI events given to processUIMessages
    apiConversation,\* the API conversation given to processUIMessages
    position,       \* the event the loop of processUIMessages is at
    clineMessages,  \* messages, in processUIMessages
    currentMessage  \* currentMessage, in processUIMessages: <<>> is null

cursorVars == <<given, bubbles, composerData, tables, pending, calls, legacy,
                snapshot, recent>>

extractVars == <<store, disk, proc, now>>

clineVars == <<uiMessages, apiConversation, position, clineMessages, currentMessage>>

vars == <<given, bubbles, composerData, tables, pending, calls, legacy,
          snapshot, recent, store, disk, proc, now, uiMessages,
          apiConversation, position, clineMessages, currentMessage>>

-----------------------------------------------------------------------------
(* Bounds of the model *)

MaxBubbles == 3
MaxKeys == 3
MaxDiffLines == 3
MaxHint == 2
MaxComposers == 2
MaxNow == 1
MaxEvents == 3

-----------------------------------------------------------------------------
(* The state of the operations that are not called *)

\* the two export commands, each of which calls extractCursorDiskKV
Commands == {"selectChat", "selectChatJSON"}

NotCalled == [pc |-> "idle", tempDbPath |-> 0, result |-> "pending", overlapped |-> FALSE]

\* no call of extractCursorDiskKV is made
ExtractIdle ==
    /\ store = [db |-> TRUE, wal |-> TRUE, shm |-> TRUE]
    /\ disk = {}
    /\ proc = [c \in Commands |-> NotCalled]
    /\ now = 0

\* no call of processUIMessages is made
ClineIdle ==
    /\ uiMessages = <<>>
    /\ apiConversation = <<>>
    /\ position = 0
    /\ clineMessages = <<>>
    /\ currentMessage = <<>>

-----------------------------------------------------------------------------
(* Generic helpers *)

Range(s) == {s[i] : i \in 1..Len(s)}

SeqsUpTo(S, n) == UNION {[1..k -> S] : k \in 0..n}

\* the mapping m with key k set to v (parameters[k] = v)
SetKey(m, k, v) == [x \in (DOMAIN m) \cup {k} |-> IF x = k THEN v ELSE m[x]]

EmptyMap == [x \in {} |-> <<>>]

Str(s) == <<s>>

\* JavaScript truthiness of a string
Truthy(v) == v # <<>>

-----------------------------------------------------------------------------
(* Tool invocation: parameter resolution (extension.js 528-558) *)

Obj(m) == [kind |-> "obj", map |-> m]
Prim(k) == [kind |-> k, map |-> EmptyMap]

StringForms == {"jsonobj", "jsonnull", "jsonnum", "jsonstr", "jsonarr",
                "badpairs", "badplain"}

\* typeof toolData.rawArgs === 'string'
IsStringArgs(ra) == ra.form \in StringForms

\* JSON.parse(text): [ok |-> FALSE] stands for the SyntaxError it throws
JSONParse(ra) ==
    CASE ra.form = "jsonobj"  -> [ok |-> TRUE, val |-> Obj(ra.map)]
      [] ra.form = "jsonnull" -> [ok |-> TRUE, val |-> Prim("null")]
      [] ra.form = "jsonnum"  -> [ok |-> TRUE, val |-> Prim("num")]
      [] ra.form = "jsonstr"  -> [ok |-> TRUE, val |-> Prim("str")]
      [] ra.form = "jsonarr"  -> [ok |-> TRUE, val |-> [kind |-> "arr", map |-> EmptyMap]]
      [] OTHER                -> [ok |-> FALSE, val |-> Prim("null")]

\* rawArgs.match(/"([^"]+)"\s*:\s*"([^"]*)"/g): the quoted pairs of the text
QuotedPairs(ra) == IF ra.form \in {"jsonobj", "badpairs"} THEN ra.map ELSE EmptyMap

\* the value a structured (non-string) rawArgs is
StructuredValue(ra) ==
    CASE ra.form = "object" -> Obj(ra.map)
      [] ra.form = "array"  -> [kind |-> "arr", map |-> ra.map]
      [] OTHER              -> Prim("num")

\* lines 530-558: the value bound to `parameters`
ResolveParameters(toolData) ==
    LET ra == toolData.rawArgs IN
    IF ra.form = "absent" THEN Obj(EmptyMap)
    ELSE IF IsStringArgs(ra)
         THEN IF JSONParse(ra).ok THEN JSONParse(ra).val
              ELSE IF DOMAIN QuotedPairs(ra) # {} THEN Obj(QuotedPairs(ra))
              ELSE Obj(SetKey(EmptyMap, "rawArgs", ra.text))
         ELSE StructuredValue(ra)

\* parameters.k read as a condition; reading a property of null throws, which
\* the callers test with ReadThrows before they use this
Param(parameters, k) ==
    parameters.kind \in {"obj", "arr"} /\ k \in DOMAIN parameters.map
        /\ Truthy(parameters.map[k])

ReadThrows(parameters) == parameters.kind = "null"

\* String(toolData.rawArgs).includes(w) for a word w of the inference tables.
\* An object prints as "[object Object]", a number as digits.
\* An array prints as its elements, joined by commas.
Includes(ra, w) ==
    \/ IsStringArgs(ra) /\ (w \in DOMAIN ra.map \/ w \in ra.words)
    \/ ra.form = "array" /\ w \in ra.words

\* rawArgs.includes('"path"'): the word path inside double quotes
IncludesQuotedPath(ra) == IsStringArgs(ra) /\ "path" \in DOMAIN ra.map

-----------------------------------------------------------------------------
(* Tool invocation: name resolution (extension.js 560-613) *)

\* line 561: toolData.name || toolData.tool || toolData.toolName || toolData.tool_name
ExplicitName(toolData) ==
    IF toolData.name # "" THEN toolData.name
    ELSE IF toolData.tool # "" THEN toolData.tool
    ELSE IF toolData.toolName # "" THEN toolData.toolName
    ELSE toolData.tool_name

\* a bug: the content test of line 569 moved out of the path branch
InferContentAnywhere(parameters) ==
    IF (Param(parameters, "file_path") \/ Param(parameters, "path")
          \/ Param(parameters, "target_file"))
          /\ (Param(parameters, "old_string") \/ Param(parameters, "new_string"))
    THEN "Edit"
    ELSE IF Param(parameters, "content") THEN "Write"
    ELSE IF Param(parameters, "file_path") \/ Param(parameters, "path")
          \/ Param(parameters, "target_file") THEN "Read"
    ELSE IF Param(parameters, "command") THEN "Bash"
    ELSE IF Param(parameters, "pattern") \/ Param(parameters, "query") THEN "Grep"
    ELSE IF Param(parameters, "relative_workspace_path") THEN "LS"
    ELSE ""

\* lines 566-580; "" when no branch assigns toolName
InferFromParameters(parameters) ==
    IF Param(parameters, "file_path") \/ Param(parameters, "path")
          \/ Param(parameters, "target_file")
    THEN IF Param(parameters, "old_string") \/ Param(parameters, "new_string")
         THEN "Edit"
         ELSE IF Param(parameters, "content") THEN "Write" ELSE "Read"
    ELSE IF Param(parameters, "command") THEN "Bash"
    ELSE IF Param(parameters, "pattern") \/ Param(parameters, "query") THEN "Grep"
    ELSE IF Param(parameters, "relative_workspace_path") THEN "LS"
    ELSE ""

\* lines 585-599; "" when no branch assigns toolName
InferFromRawArgs(ra) ==
    IF Includes(ra, "file_path") \/ IncludesQuotedPath(ra)
    THEN IF Includes(ra, "old_string") \/ Includes(ra, "new_string") THEN "Edit"
         ELSE IF Includes(ra, "content") THEN "Write" ELSE "Read"
    ELSE IF Includes(ra, "command") THEN "Bash"
    ELSE IF Includes(ra, "pattern") \/ Includes(ra, "query") THEN "Grep"
    ELSE IF Includes(ra, "relative_workspace_path") THEN "LS"
    ELSE ""

\* lines 603-612
GenericName(toolData) ==
    IF toolData.tool_name = "unknown_tool" \/ toolData.name = "unknown_tool"
          \/ toolData.toolName = "unknown_tool"
          \/ (toolData.rawArgs.form # "absent"
                /\ Includes(toolData.rawArgs, "unknown_tool"))
    THEN "Unknown Tool"
    ELSE "Tool"

\* line 564: the inference block is entered
NeedsInference(toolData) ==
    ExplicitName(toolData) = "" \/ ExplicitName(toolData) = "unknown_tool"

\* a name that a branch assigned, else the name there was
OrElse(assigned, name) == IF assigned # "" THEN assigned ELSE name

\* lines 583-600: toolName after the rawArgs block
AfterRawArgs(toolData, toolName) ==
    IF toolName = "" /\ toolData.rawArgs.form # "absent"
    THEN OrElse(InferFromRawArgs(toolData.rawArgs), toolName)
    ELSE toolName

\* lines 603-612: toolName after the generic block
AfterGeneric(toolData, toolName) ==
    IF toolName = "" THEN GenericName(toolData) ELSE toolName

\* lines 560-613, for parameters whose properties can be read
ResolveToolName(toolData, parameters) ==
    IF ~NeedsInference(toolData) THEN ExplicitName(toolData)
    ELSE AfterGeneric(toolData,
            AfterRawArgs(toolData,
                OrElse(InferFromParameters(parameters), ExplicitName(toolData))))

\* line 566 reads parameters.file_path: a TypeError when parameters is null
NameThrows(toolData, parameters) ==
    NeedsInference(toolData) /\ ReadThrows(parameters)

-----------------------------------------------------------------------------
(* Tool invocation: diff-chunk recovery (extension.js 615-652) *)

\* String.prototype.trim on a multi-line string: blank lines at both ends go,
\* then the white space that starts the first line (no string here ends in
\* white space)
StripLeft(s) == IF s = " in" THEN "in" ELSE s

RECURSIVE TrimLeft(_)
TrimLeft(ls) == IF ls # <<>> /\ Head(ls) = "" THEN TrimLeft(Tail(ls)) ELSE ls

RECURSIVE TrimRight(_)
TrimRight(ls) ==
    IF ls # <<>> /\ ls[Len(ls)] = "" THEN TrimRight(SubSeq(ls, 1, Len(ls) - 1)) ELSE ls

Trim(ls) ==
    LET t == TrimRight(TrimLeft(ls)) IN
    [i \in 1..Len(t) |-> IF i = 1 THEN StripLeft(t[i]) ELSE t[i]]

\* result.diff.chunks of a result that carries a diff: the lines of the diff,
\* cut in two chunks; a chunk whose diffString is empty is skipped (line 626)
Chunks(result) ==
    SelectSeq(<<SubSeq(result.lines, 1, result.cut),
                SubSeq(result.lines, result.cut + 1, Len(result.lines))>>,
              LAMBDA c : c # <<>>)

\* lines 627-639: the bodies of one chunk's lines that start with a prefix of pfx
RECURSIVE Bucket(_, _)
Bucket(lines, pfx) ==
    IF lines = <<>> THEN <<>>
    ELSE (IF Head(lines).pfx \in pfx THEN <<Head(lines).body>> ELSE <<>>)
            \o Bucket(Tail(lines), pfx)

\* lines 625-641: oldString / newString accumulated over the chunks in order
RECURSIVE BucketChunks(_, _)
BucketChunks(chunks, pfx) ==
    IF chunks = <<>> THEN <<>>
    ELSE Bucket(Head(chunks), pfx) \o BucketChunks(Tail(chunks), pfx)

\* a bug: the context lines of lines 633-637 not added to oldString
OldStringNoContext(result) == BucketChunks(Chunks(result), {"- "})

OldString(result) == BucketChunks(Chunks(result), {"- ", "  "})
NewString(result) == BucketChunks(Chunks(result), {"+ ", "  "})

\* line 617
DiffToolName(toolName) == toolName = "edit_file"

\* lines 617-620 and 643: the diff branch reaches the assignments of line 644
DiffFound(toolName, toolData) ==
    /\ DiffToolName(toolName)
    /\ toolData.result.form = "diff"
    /\ (OldString(toolData.result) # <<>> \/ NewString(toolData.result) # <<>>)

\* lines 644-645: parameters.old_string = ..., parameters.new_string = ...
\* An assignment to a property of a number or a string is ignored (sloppy mode).
WithDiff(parameters, result) ==
    IF parameters.kind \in {"obj", "arr"}
    THEN [parameters EXCEPT !.map =
            SetKey(SetKey(parameters.map, "old_string", Trim(OldString(result))),
                   "new_string", Trim(NewString(result)))]
    ELSE parameters

\* lines 616-652: parameters after the diff branch; the TypeError of an
\* assignment to null is caught at line 649
ParametersAfterDiff(toolName, toolData, parameters) ==
    IF DiffFound(toolName, toolData) /\ parameters.kind # "null"
    THEN WithDiff(parameters, toolData.result)
    ELSE parameters

\* line 646 is reached
DiffExtracted(toolName, toolData, parameters) ==
    DiffFound(toolName, toolData) /\ parameters.kind # "null"

\* `parameters = toolData.rawArgs` (line 538) makes parameters the very object
\* of the bubble: the assignments of lines 644-645 change the bubble
ToolDataAfter(toolData, parameters) ==
    IF toolData.rawArgs.form \in {"object", "array"}
    THEN [toolData EXCEPT !.rawArgs.map = parameters.map]
    ELSE toolData

\* lines 654-661, with the parameters as the diff branch left them
NormalizeFinal(toolData, toolName, final, diffExtracted) ==
    [threw |-> FALSE, tool_name |-> toolName, parameters |-> final,
     status |-> toolData.status, result |-> toolData.result,
     raw_content |-> ToolDataAfter(toolData, final),
     diff_extracted |-> diffExtracted,
     after |-> ToolDataAfter(toolData, final)]

\* lines 615-661, with the name resolved
NormalizeNamed(toolData, parameters, toolName) ==
    NormalizeFinal(toolData, toolName,
                   ParametersAfterDiff(toolName, toolData, parameters),
                   DiffExtracted(toolName, toolData, parameters))

\* lines 560-661, with the parameters resolved
NormalizeResolved(toolData, parameters) ==
    IF NameThrows(toolData, parameters)
    THEN [threw |-> TRUE, tool_name |-> "", parameters |-> parameters,
          status |-> toolData.status, result |-> toolData.result,
          raw_content |-> toolData, diff_extracted |-> FALSE, after |-> toolData]
    ELSE NormalizeNamed(toolData, parameters, ResolveToolName(toolData, parameters))

\* lines 528-662: the record pushed on tool_calls, or threw = TRUE when the
\* TypeError of line 566 leaves reconstructConversation; `after` is toolData
\* as the call leaves it
NormalizeTool(toolData) == NormalizeResolved(toolData, ResolveParameters(toolData))

-----------------------------------------------------------------------------
(* Tool invocation in the older definition (extension.js 1067-1113) *)

\* lines 1069-1074. JSON.parse turns a structured rawArgs into a string first:
\* an object or an array does not parse and is wrapped (the wrapped value is
\* written here by the text String() gives it), a number parses to itself.
LegacyParameters(toolData) ==
    LET ra == toolData.rawArgs IN
    IF ra.form = "absent" THEN Obj(EmptyMap)
    ELSE IF IsStringArgs(ra)
         THEN IF JSONParse(ra).ok THEN JSONParse(ra).val
              ELSE Obj(SetKey(EmptyMap, "rawArgs", ra.text))
         ELSE IF ra.form \in {"object", "array"}
              THEN Obj(SetKey(EmptyMap, "rawArgs", Str("[object]")))
              ELSE Prim("num")

\* line 1077
LegacyExplicitName(toolData) ==
    IF toolData.name # "" THEN toolData.name ELSE toolData.tool

\* lines 1083-1097; "" when no branch assigns toolName
LegacyInferFromRawArgs(ra) ==
    IF Includes(ra, "file_path") \/ IncludesQuotedPath(ra)
    THEN IF Includes(ra, "old_string") \/ Includes(ra, "new_string")
         THEN "search_replace"
         ELSE IF Includes(ra, "content") THEN "write_file" ELSE "read_file"
    ELSE IF Includes(ra, "command") THEN "run_terminal_cmd"
    ELSE IF Includes(ra, "pattern") \/ Includes(ra, "query") THEN "grep_search"
    ELSE IF Includes(ra, "relative_workspace_path") THEN "list_dir"
    ELSE ""

LegacyNeedsInference(toolData) ==
    LegacyExplicitName(toolData) \in {"", "unknown_tool"}

\* line 1083 calls rawArgs.includes: a TypeError when rawArgs is an object or
\* a number (an array has includes, which finds the words that are elements)
LegacyNameThrows(toolData) ==
    LegacyNeedsInference(toolData) /\ toolData.rawArgs.form \in {"object", "number"}

\* lines 1077-1104
LegacyToolName(toolData) ==
    IF ~LegacyNeedsInference(toolData) THEN LegacyExplicitName(toolData)
    ELSE OrElse(OrElse(IF toolData.rawArgs.form # "absent"
                       THEN LegacyInferFromRawArgs(toolData.rawArgs) ELSE "",
                       LegacyExplicitName(toolData)),
                "unknown_tool")

\* lines 1067-1113; the record has the shape NormalizeTool gives, the older
\* definition sets no diff_extracted and changes no bubble
NormalizeToolLegacy(toolData) ==
    [threw |-> LegacyNameThrows(toolData),
     tool_name |-> IF LegacyNameThrows(toolData) THEN "" ELSE LegacyToolName(toolData),
     parameters |-> LegacyParameters(toolData),
     status |-> toolData.status, result |-> toolData.result,
     raw_content |-> toolData, diff_extracted |-> FALSE, after |-> toolData]

\* the tool-invocation block of the definition in use
Normalize(toolData, old) ==
    IF old THEN NormalizeToolLegacy(toolData) ELSE NormalizeTool(toolData)

-----------------------------------------------------------------------------
(* Content parser (src/src/extractor.js 192-284) *)

\* A text is a sequence of segments [k, a, b]:
\*   "plain"  a = the words                     "ws"    white space
\*   "think"  a = body of <thinking>..</thinking>
\*   "code"   a = language tag or "", b = the fenced code
\*   "invoke" a = tool name, b = its file_path parameter or "" (one
\*            <function_calls> block holding one <invoke>)
NoText == <<>>

EmptyContent ==
    [text |-> NoText, tool_calls |-> <<>>, tool_results |-> <<>>,
     thinking_blocks |-> <<>>, code_blocks |-> <<>>, file_operations |-> <<>>]

\* lines 213-243: one record per <invoke>
ParsedToolCall(seg) ==
    [tool_name |-> seg.a,
     parameters |-> IF seg.b = "" THEN Obj(EmptyMap)
                    ELSE Obj(SetKey(EmptyMap, "file_path", Str(seg.b))),
     raw_content |-> seg]

\* lines 267-285
FileOperation(call) ==
    [operation |-> CASE call.tool_name = "Read" -> "read"
                     [] call.tool_name = "Edit" -> "edit"
                     [] OTHER -> "write",
     path |-> call.parameters.map["file_path"]]

IsFileCall(call) ==
    call.tool_name \in {"Read", "Edit", "Write"} /\ Param(call.parameters, "file_path")

\* the segments one pattern matches, in text order
Segments(text, kind) == SelectSeq(text, LAMBDA g : g.k = kind)

CodeBlock(g) == [language |-> IF g.a = "" THEN "text" ELSE g.a, code |-> g.b]

parseMessageContent(content) ==
    IF content = NoText THEN EmptyContent
    ELSE LET invokes == Segments(content, "invoke")
             tool_calls == [i \in 1..Len(invokes) |-> ParsedToolCall(invokes[i])]
             thinks == Segments(content, "think")
             codes == Segments(content, "code")
             fileCalls == SelectSeq(tool_calls, IsFileCall)
         IN  [text |-> content,
              tool_calls |-> tool_calls,
              tool_results |-> <<>>,
              thinking_blocks |-> [i \in 1..Len(thinks) |-> Trim(Str(thinks[i].a))],
              code_blocks |-> [i \in 1..Len(codes) |-> CodeBlock(codes[i])],
              file_operations |->
                  [i \in 1..Len(fileCalls) |-> FileOperation(fileCalls[i])]]

-----------------------------------------------------------------------------
(* reconstructConversation: ordering (extension.js 356-397) *)

UserType == 1
AssistantType == 2
Unordered == 999999

\* bubbles[composerId] || {}: `bubbles` is <<>> when the mapping has no entry
\* for the conversation, else <<entries>>
ComposerBubbles(bs) == IF bs = <<>> THEN <<>> ELSE bs[1]

\* bubble.timestamp || bubble.createdAt || 0
OwnTimestamp(bubble) ==
    IF bubble.timestamp # 0 THEN bubble.timestamp ELSE bubble.createdAt

\* composerData.fullConversationHeadersOnly || []
ConversationOrder(cd) == cd.fullConversationHeadersOnly

HasBubble(entries, id) == \E i \in 1..Len(entries) : entries[i].id = id

\* lines 367-372: bubbleOrderMap; a later header of the same bubble replaces
\* the earlier one (Map.set), the index is the zero-based position
OrderPositions(entries, order, id) ==
    {i - 1 : i \in {j \in 1..Len(order) :
                      order[j] # "" /\ order[j] = id /\ HasBubble(entries, id)}}

Max(S) == CHOOSE x \in S : \A y \in S : y <= x

OrderIndex(entries, order, id) ==
    IF OrderPositions(entries, order, id) = {} THEN Unordered
    ELSE Max(OrderPositions(entries, order, id))

\* lines 375-380 and 391-395: the entry handed to sort
SortEntry(entries, order, bubble) ==
    [bubble EXCEPT !.timestamp = OwnTimestamp(bubble)]

\* a bug: a comparator that puts a bubble before the earlier ones of its
\* own timestamp
BeforeOrEqual(entries, order, a, b) == a.timestamp <= b.timestamp

\* a bug: the comparator of line 396 used with a hint too
BeforeByTimestamp(entries, order, a, b) == a.timestamp < b.timestamp

\* lines 381-387 and 396: the comparator is negative
Before(entries, order, a, b) ==
    IF Len(order) > 0
    THEN IF OrderIndex(entries, order, a.id) # OrderIndex(entries, order, b.id)
         THEN OrderIndex(entries, order, a.id) < OrderIndex(entries, order, b.id)
         ELSE a.timestamp < b.timestamp
    ELSE a.timestamp < b.timestamp

\* Array.prototype.sort is stable: x goes behind every element that is not
\* after it
RECURSIVE InsertSorted(_, _, _, _)
InsertSorted(entries, order, sorted, x) ==
    IF sorted = <<>> THEN <<x>>
    ELSE IF Before(entries, order, x, Head(sorted)) THEN <<x>> \o sorted
    ELSE <<Head(sorted)>> \o InsertSorted(entries, order, Tail(sorted), x)

RECURSIVE SortFrom(_, _, _, _)
SortFrom(entries, order, sorted, rest) ==
    IF rest = <<>> THEN sorted
    ELSE SortFrom(entries, order,
                  InsertSorted(entries, order, sorted,
                               SortEntry(entries, order, Head(rest))),
                  Tail(rest))

\* a bug: the entries taken in Object.entries order, the sort left out
EntriesUnsorted(bs, cd) ==
    [i \in 1..Len(ComposerBubbles(bs)) |->
        SortEntry(ComposerBubbles(bs), ConversationOrder(cd), ComposerBubbles(bs)[i])]

\* lines 364-397
SortedBubbles(bs, cd) ==
    SortFrom(ComposerBubbles(bs), ConversationOrder(cd), <<>>, ComposerBubbles(bs))

-----------------------------------------------------------------------------
(* reconstructConversation: grouping (extension.js 399-448) *)

\* a bug: the filter of line 405 left out
HasContentAlways(bubble) == TRUE

\* a bug: only bubble.text tested at line 405
HasContentTextOnly(bubble) == bubble.text # NoText

\* line 405
HasContent(bubble) ==
    bubble.text # NoText \/ bubble.thinking # <<>> \/ bubble.toolFormerData # <<>>

\* `bubble-${bubble.id}`
Placeholder(id) == "bubble-" \o id

BubbleIds == {"b1", "b2", "b3", "b4", "b5"}

\* usageUuid.startsWith('bubble-'), for the generation ids of the model
StartsWithBubble(u) == u \in {Placeholder(id) : id \in BubbleIds}

\* lines 410-415
UserGroup(bubble) ==
    [type |-> "user", bubbles |-> <<bubble>>, timestamp |-> OwnTimestamp(bubble),
     usageUuid |-> bubble.usageUuid]

\* lines 430-435
NewAssistantGroup(bubble) ==
    [type |-> "assistant", bubbles |-> <<>>, timestamp |-> OwnTimestamp(bubble),
     usageUuid |-> IF bubble.usageUuid # "" THEN bubble.usageUuid
                   ELSE Placeholder(bubble.id)]

\* lines 424-427, with currentAssistantGroup = cur
ShouldStartNewGroup(open, cur, bubble) ==
    \/ ~open
    \/ /\ bubble.usageUuid # ""
       /\ cur.usageUuid # ""
       /\ bubble.usageUuid # cur.usageUuid
       /\ cur.usageUuid # "mixed"

\* a bug: the bubble pushed twice at line 440
AbsorbTwice(group, bubble) ==
    [group EXCEPT !.bubbles = @ \o <<bubble, bubble>>]

\* lines 440-446
Absorb(group, bubble) ==
    LET g == [group EXCEPT !.bubbles = Append(@, bubble)] IN
    IF bubble.usageUuid # "" /\ g.usageUuid # bubble.usageUuid
          /\ ~StartsWithBubble(g.usageUuid)
    THEN [g EXCEPT !.usageUuid = "mixed"]
    ELSE g

\* One turn of the loop of lines 403-448. currentAssistantGroup, when it is
\* not null, is the last element of messageGroups: st.open says it is not null.
GroupStep(st, bubble) ==
    IF ~HasContent(bubble) THEN st
    ELSE IF bubble.type = UserType
    THEN [groups |-> Append(st.groups, UserGroup(bubble)), open |-> FALSE]
    ELSE LET n == Len(st.groups) IN
         IF ShouldStartNewGroup(st.open, IF st.open THEN st.groups[n]
                                         ELSE NewAssistantGroup(bubble), bubble)
         THEN [groups |-> Append(st.groups, Absorb(NewAssistantGroup(bubble), bubble)),
               open |-> TRUE]
         ELSE [groups |-> [st.groups EXCEPT ![n] = Absorb(st.groups[n], bubble)],
               open |-> TRUE]

RECURSIVE GroupFrom(_, _)
GroupFrom(st, sorted) ==
    IF sorted = <<>> THEN st
    ELSE GroupFrom(GroupStep(st, Head(sorted)), Tail(sorted))

\* lines 399-448: messageGroups
MessageGroups(sorted) == GroupFrom([groups |-> <<>>, open |-> FALSE], sorted).groups

-----------------------------------------------------------------------------
(* Timestamp inference (extension.js 740-809) *)

MaxOf(S) == IF S = {} THEN 0 ELSE Max(S)

\* lines 748-768: the bubble fields scanned; updatedAt stands for the five
\* fields (created_at .. last_modified) that only this scan reads
BubbleStamps(entries) ==
    UNION {{entries[i].timestamp, entries[i].createdAt, entries[i].updatedAt} :
             i \in 1..Len(entries)}

\* lines 771-806: the fields of the metadata record (createdAt stands for
\* its nine aliases) and of its embedded conversation array
ComposerStamps(cd) == {cd.createdAt} \cup Range(cd.conversation)

\* a bug: the metadata record scanned although a bubble carries a timestamp
getLatestOverall(bs, cd) ==
    MaxOf({t \in BubbleStamps(ComposerBubbles(bs)) \cup ComposerStamps(cd) : t > 0})

\* 0 stands for null; otherwise the epoch-millis of the Date returned
getLatestTimestampForComposer(bs, cd) ==
    LET fromBubbles == MaxOf({t \in BubbleStamps(ComposerBubbles(bs)) : t > 0}) IN
    IF fromBubbles > 0 THEN fromBubbles
    ELSE MaxOf({t \in ComposerStamps(cd) : t > 0})

-----------------------------------------------------------------------------
(* reconstructConversation: message synthesis (extension.js 450-692) *)

UserStep == 60000
AssistantStep == 30000

ThinkingPlaceholder == Str("_[Assistant thinking...]_")

\* a bug: the index of lines 466 and 673 always 0
CountNone(messages, type) == 0

\* a bug: the index of lines 466 and 673 counted over every message
CountAll(messages, type) == Len(messages)

\* lines 466 and 672: messages.filter(m => m.type === type).length
CountType(messages, type) ==
    Cardinality({i \in 1..Len(messages) : messages[i].type = type})

\* lines 463 and 671: the guard of the synthetic timestamp
NeedsBackfill(timestamp, baseTimestamp) == timestamp = 0 /\ baseTimestamp # 0

\* a bug: the guard `&& baseTimestamp` of lines 463 and 671 left out
BackfillUnguarded(timestamp, baseTimestamp, clock, index, step) ==
    LET baseTime == IF baseTimestamp # 0 THEN baseTimestamp ELSE clock IN
    IF timestamp = 0 THEN baseTime + index * step ELSE timestamp

\* lines 452-453 and 461-468 / 670-674
Backfill(timestamp, baseTimestamp, clock, index, step) ==
    LET baseTime == IF baseTimestamp # 0 THEN baseTimestamp ELSE clock IN
    IF NeedsBackfill(timestamp, baseTimestamp)
    THEN baseTime + index * step
    ELSE timestamp

\* lines 456-478
UserMessage(group, messages, baseTimestamp, clock) ==
    LET bubble == group.bubbles[1] IN
    [id |-> bubble.id,
     type |-> "user",
     timestamp |-> Backfill(OwnTimestamp(bubble), baseTimestamp, clock,
                            CountType(messages, "user"), UserStep),
     content |-> parseMessageContent(bubble.text),
     raw_content |-> bubble.text,
     thinking_duration_ms |-> bubble.thinkingDurationMs,
     usage_uuid |-> bubble.usageUuid]

\* a bug: the payload's text pushed as it is, without trim and placeholder
ThinkingRaw(bubble) == bubble.thinking

\* lines 516-525: what one bubble's thinking payload adds
ThinkingOf(bubble) ==
    IF bubble.thinking = <<>> THEN <<>>
    ELSE IF Trim(bubble.thinking[1]) # <<>> THEN <<Trim(bubble.thinking[1])>>
    ELSE <<ThinkingPlaceholder>>

\* lines 495-668: one turn of the loop over group.bubbles
\* lines 654-661: the record pushed for a normalized invocation, if any
ToolRecords(tool) ==
    IF tool = <<>> THEN <<>>
    ELSE <<[tool_name |-> tool[1].tool_name, parameters |-> tool[1].parameters,
            status |-> tool[1].status, result |-> tool[1].result,
            raw_content |-> tool[1].raw_content,
            diff_extracted |-> tool[1].diff_extracted]>>

\* a bug: the update of lines 498-500 left out
FirstOf(stamp, mainTimestamp) == mainTimestamp

\* lines 497-500: the latest timestamp of the group so far
LaterOf(stamp, mainTimestamp) == IF stamp > mainTimestamp THEN stamp ELSE mainTimestamp

\* one turn of the loop, with the text parsed and the invocation normalized
CombineParsed(acc, bubble, parsed, tool) ==
    IF acc.threw THEN acc
    ELSE IF tool # <<>> /\ tool[1].threw THEN [acc EXCEPT !.threw = TRUE]
    ELSE [threw |-> FALSE,
          text |-> acc.text \o parsed.text,
          tool_calls |-> acc.tool_calls \o parsed.tool_calls \o ToolRecords(tool),
          tool_results |-> acc.tool_results \o parsed.tool_results,
          thinking_blocks |-> acc.thinking_blocks \o parsed.thinking_blocks
                \o ThinkingOf(bubble),
          code_blocks |-> acc.code_blocks \o parsed.code_blocks,
          file_operations |-> acc.file_operations \o parsed.file_operations,
          mainBubbleId |-> IF bubble.text # NoText THEN bubble.id
                           ELSE acc.mainBubbleId,
          mainTimestamp |-> LaterOf(OwnTimestamp(bubble), acc.mainTimestamp),
          thinkingDurationMs |-> acc.thinkingDurationMs + bubble.thinkingDurationMs,
          done |-> Append(acc.done, bubble.id)]

Combine(acc, bubble, old) ==
    CombineParsed(acc, bubble, parseMessageContent(bubble.text),
                  IF bubble.toolFormerData = <<>> THEN <<>>
                  ELSE <<Normalize(bubble.toolFormerData[1], old)>>)

RECURSIVE CombineFrom(_, _, _)
CombineFrom(acc, bs, old) ==
    IF bs = <<>> THEN acc
    ELSE CombineFrom(Combine(acc, Head(bs), old), Tail(bs), old)

\* lines 481-492
CombineStart(group) ==
    [threw |-> FALSE, text |-> NoText, tool_calls |-> <<>>, tool_results |-> <<>>,
     thinking_blocks |-> <<>>, code_blocks |-> <<>>, file_operations |-> <<>>,
     mainBubbleId |-> "", mainTimestamp |-> group.timestamp,
     thinkingDurationMs |-> 0, done |-> <<>>]

\* combinedContent.text.trim(): white space at both ends goes
RECURSIVE TrimTextLeft(_)
TrimTextLeft(t) ==
    IF t # <<>> /\ Head(t).k = "ws" THEN TrimTextLeft(Tail(t)) ELSE t

RECURSIVE TrimTextRight(_)
TrimTextRight(t) ==
    IF t # <<>> /\ t[Len(t)].k = "ws" THEN TrimTextRight(SubSeq(t, 1, Len(t) - 1))
    ELSE t

TrimText(t) == TrimTextRight(TrimTextLeft(t))

\* [...new Set(blocks)]: the first occurrence of each string, in order
RECURSIVE Dedup(_)
Dedup(blocks) ==
    IF blocks = <<>> THEN <<>>
    ELSE LET front == Dedup(SubSeq(blocks, 1, Len(blocks) - 1))
             last == blocks[Len(blocks)]
         IN  IF last \in Range(front) THEN front ELSE Append(front, last)

\* a bug: line 680 left out
ThinkingBlocksKept(blocks) == blocks

\* line 680
FinalThinkingBlocks(blocks) == Dedup(blocks)

\* lines 670-690, from the accumulated content c of a group
AssistantMessage(group, c, messages, baseTimestamp, clock) ==
    [id |-> IF c.mainBubbleId # "" THEN c.mainBubbleId ELSE group.bubbles[1].id,
     type |-> "assistant",
     timestamp |-> Backfill(c.mainTimestamp, baseTimestamp, clock,
                            CountType(messages, "assistant"), AssistantStep),
     content |-> [text |-> TrimText(c.text),
                  tool_calls |-> c.tool_calls,
                  tool_results |-> c.tool_results,
                  thinking_blocks |-> FinalThinkingBlocks(c.thinking_blocks),
                  code_blocks |-> c.code_blocks,
                  file_operations |-> c.file_operations],
     raw_content |-> TrimText(c.text),
     thinking_duration_ms |-> c.thinkingDurationMs,
     usage_uuid |-> group.usageUuid]

\* lines 670-690 for the accumulated content c, unless the loop over the
\* bubbles threw
PushAssistant(acc, group, c, baseTimestamp, clock) ==
    IF c.threw THEN [acc EXCEPT !.threw = TRUE, !.done = @ \o c.done]
    ELSE [acc EXCEPT !.messages = Append(@, AssistantMessage(group, c, acc.messages,
                                                             baseTimestamp, clock)),
                     !.done = @ \o c.done]

\* One turn of the loop of lines 455-692; `done` lists the bubbles whose tool
\* invocation was normalized
SynthStep(acc, group, baseTimestamp, clock, old) ==
    IF acc.threw THEN acc
    ELSE IF group.type = "user"
    THEN [acc EXCEPT !.messages =
                Append(@, UserMessage(group, acc.messages, baseTimestamp, clock))]
    ELSE PushAssistant(acc, group, CombineFrom(CombineStart(group), group.bubbles, old),
                       baseTimestamp, clock)

RECURSIVE SynthFrom(_, _, _, _, _)
SynthFrom(acc, groups, baseTimestamp, clock, old) ==
    IF groups = <<>> THEN acc
    ELSE SynthFrom(SynthStep(acc, Head(groups), baseTimestamp, clock, old),
                   Tail(groups), baseTimestamp, clock, old)

Synthesis(groups, baseTimestamp, clock, old) ==
    SynthFrom([threw |-> FALSE, messages |-> <<>>, done |-> <<>>],
              groups, baseTimestamp, clock, old)

\* lines 694-700 and 708: the distinct truthy usageUuid values, in sorted order
RequestIds(sorted) ==
    Dedup(SelectSeq([i \in 1..Len(sorted) |-> sorted[i].usageUuid],
                    LAMBDA u : u # ""))

\* line 361 (and 916): composerData.fullConversationHeadersOnly is read without
\* a guard, a TypeError when the caller has no metadata record to pass
OrderThrows(cd) == ~cd.defined

Thrown == [threw |-> TRUE, messages |-> <<>>, done |-> <<>>]

\* checkpoints[composerId] || {} and codeDiffs[composerId] || {}
SideTable(t) == IF t = <<>> THEN <<>> ELSE t[1]

\* lines 702-709: the value returned, or threw = TRUE when an exception
\* leaves the function
Conversation(sorted, syn, tb, cd) ==
    [threw |-> syn.threw,
     composer_data |-> cd,
     messages |-> IF syn.threw THEN <<>> ELSE syn.messages,
     code_diffs |-> SideTable(tb.codeDiffs),
     checkpoints |-> SideTable(tb.checkpoints),
     request_ids |-> IF syn.threw THEN <<>> ELSE RequestIds(sorted)]

\* a bug: line 356 without `|| {}`, Object.entries(undefined) throws
reconstructConversationNoDefault(bs, tb, cd, clock) ==
    IF bs = <<>>
    THEN Conversation(<<>>, [threw |-> TRUE, messages |-> <<>>], tb, cd)
    ELSE Conversation(SortedBubbles(bs, cd),
                      Synthesis(MessageGroups(SortedBubbles(bs, cd)),
                                getLatestTimestampForComposer(bs, cd), clock, FALSE),
                      tb, cd)

\* lines 352-710
reconstructConversation(bs, tb, cd, clock) ==
    Conversation(SortedBubbles(bs, cd),
                 IF OrderThrows(cd) THEN Thrown
                 ELSE Synthesis(MessageGroups(SortedBubbles(bs, cd)),
                                getLatestTimestampForComposer(bs, cd), clock, FALSE),
                 tb, cd)

\* The bubbles as the call leaves them: lines 644-645 write into the rawArgs
\* object of every bubble whose tool invocation was normalized
BubbleAfter(bubble, done) ==
    IF bubble.id \in Range(done) /\ bubble.toolFormerData # <<>>
    THEN [bubble EXCEPT !.toolFormerData =
                <<NormalizeTool(bubble.toolFormerData[1]).after>>]
    ELSE bubble

AllAfter(bs, done) ==
    IF bs = <<>> THEN bs
    ELSE <<[i \in 1..Len(bs[1]) |-> BubbleAfter(bs[1][i], done)]>>

BubblesAfter(bs, cd, clock) ==
    IF OrderThrows(cd) THEN bs
    ELSE AllAfter(bs, Synthesis(MessageGroups(SortedBubbles(bs, cd)),
                                getLatestTimestampForComposer(bs, cd), clock, FALSE).done)

-----------------------------------------------------------------------------
(* The older definition of reconstructConversation (extension.js 907-1152) *)

\* index of the group usageUuidGroups holds for a generation id, 0 if none
LegacyGroupOf(groups, usageUuid) ==
    LET hits == {i \in 1..Len(groups) :
                   groups[i].type = "assistant" /\ groups[i].usageUuid = usageUuid}
    IN  IF hits = {} THEN 0 ELSE CHOOSE i \in hits : TRUE

\* One turn of the loop of lines 958-987
LegacyGroupStep(groups, bubble) ==
    IF ~HasContent(bubble) THEN groups
    ELSE IF bubble.type = UserType THEN Append(groups, UserGroup(bubble))
    ELSE LET g == LegacyGroupOf(groups, NewAssistantGroup(bubble).usageUuid) IN
         IF g = 0
         THEN Append(groups, [NewAssistantGroup(bubble) EXCEPT !.bubbles = <<bubble>>])
         ELSE [groups EXCEPT ![g].bubbles = Append(@, bubble)]

RECURSIVE LegacyGroupFrom(_, _)
LegacyGroupFrom(groups, sorted) ==
    IF sorted = <<>> THEN groups
    ELSE LegacyGroupFrom(LegacyGroupStep(groups, Head(sorted)), Tail(sorted))

\* lines 954-987: messageGroups
LegacyMessageGroups(sorted) == LegacyGroupFrom(<<>>, sorted)

\* lines 907-1152; the older definition returns no request_ids
LegacyConversation(syn, tb, cd) ==
    [threw |-> syn.threw,
     composer_data |-> cd,
     messages |-> IF syn.threw THEN <<>> ELSE syn.messages,
     code_diffs |-> SideTable(tb.codeDiffs),
     checkpoints |-> SideTable(tb.checkpoints)]

reconstructConversationLegacy(bs, tb, cd, clock) ==
    LegacyConversation(IF OrderThrows(cd) THEN Thrown
                       ELSE Synthesis(LegacyMessageGroups(SortedBubbles(bs, cd)),
                                      getLatestTimestampForComposer(bs, cd), clock, TRUE),
                       tb, cd)

-----------------------------------------------------------------------------
(* Inputs *)

Id(i) == <<"b1", "b2", "b3", "b4", "b5">>[i]

\* Epoch-millis values are scaled down to fit the integers of TLC; only
\* their order and their sums with the backfill steps matter.
\* values Date.now() can return
Clock == {2000000, 2000001}

\* real timestamps; 0 is a missing timestamp
Stamps == {1000000, 1000500}
T0 == CHOOSE t \in Stamps : \A u \in Stamps : t <= u

NoArgs == [form |-> "absent", map |-> EmptyMap, words |-> {}, text |-> <<>>]
NoResult == [form |-> "absent", lines |-> <<>>, cut |-> 0]

Line(pfx, body) == [pfx |-> pfx, body |-> body]

\* the result {diff:{chunks:[{diffString:"- old\n+ new\n  ctx"}]}}
SpecDiffResult ==
    [form |-> "diff",
     lines |-> <<Line("- ", "old"), Line("+ ", "new"), Line("  ", "ctx")>>,
     cut |-> 3]

ToolData(name, rawArgs, result) ==
    [name |-> name, tool |-> "", toolName |-> "", tool_name |-> "",
     rawArgs |-> rawArgs, result |-> result, status |-> "completed"]

\* an edit_file invocation whose rawArgs is an object, with a diff result
EditTool(id) ==
    ToolData("edit_file",
             [form |-> "object", map |-> SetKey(EmptyMap, "target_file", Str(id)),
              words |-> {}, text |-> <<>>],
             SpecDiffResult)

Seg(k, a, b) == [k |-> k, a |-> a, b |-> b]

TextOf(id) ==
    <<Seg("plain", id, ""), Seg("think", "plan", ""), Seg("code", "", id),
      Seg("invoke", "Read", id), Seg("ws", "", "")>>

NoContent == [text |-> NoText, thinking |-> <<>>, toolFormerData |-> <<>>]

Bubble(id, type, usageUuid, content, timestamp) ==
    [id |-> id, type |-> type, usageUuid |-> usageUuid,
     text |-> content.text, thinking |-> content.thinking,
     toolFormerData |-> content.toolFormerData,
     timestamp |-> timestamp, createdAt |-> 0, updatedAt |-> 0,
     thinkingDurationMs |-> IF content.thinking = <<>> THEN 0 ELSE 7]

ComposerData(order, createdAt) ==
    [defined |-> TRUE, fullConversationHeadersOnly |-> order, createdAt |-> createdAt,
     conversation |-> <<>>]

\* data.composers[composerId] of a conversation that has bubbles but no
\* composerData row: undefined
NoComposerData == [ComposerData(<<>>, 0) EXCEPT !.defined = FALSE]

NoTables == [checkpoints |-> <<>>, codeDiffs |-> <<>>]

\* a data store that no operation reads
NoSnapshot == [failure |-> "none", rows |-> <<>>]

\* role and generation id of a bubble
Roles == {<<UserType, "">>, <<AssistantType, "">>,
          <<AssistantType, "genA">>, <<AssistantType, "genB">>}

\* Conversations that differ in roles and generation ids, and may hold a
\* bubble that carries nothing
GroupBubbles(i) ==
    {Bubble(Id(i), r[1], r[2], [NoContent EXCEPT !.text = TextOf(Id(i))], 0) : r \in Roles}
        \cup {Bubble(Id(i), UserType, "", NoContent, 0)}

\* Conversations that differ in what the bubbles carry
MergeContents(id) ==
    {[NoContent EXCEPT !.text = TextOf(id)],
     [NoContent EXCEPT !.thinking = <<Str("plan")>>],
     [NoContent EXCEPT !.thinking = <<Str("")>>],
     [NoContent EXCEPT !.toolFormerData = <<EditTool(id)>>]}

MergeBubbles(i) ==
    {Bubble(Id(i), AssistantType, "genA", c, 0) : c \in MergeContents(Id(i))}
        \cup {Bubble(Id(i), UserType, "genA", c, 0) :
                 c \in MergeContents(Id(i)) \ {[NoContent EXCEPT !.thinking = <<Str("")>>]}}

\* the conversations of up to MaxBubbles bubbles, the i-th drawn from B[i]
Conversations(B) ==
    UNION {{f \in [1..n -> UNION {B[i] : i \in 1..n}] :
              \A i \in 1..n : f[i] \in B[i]} : n \in 0..MaxBubbles}

\* the calls a caller makes: the current definition twice, or the older one
Plans == {<<"current", "current">>, <<"older">>}

InitGroup ==
    /\ \/ /\ bubbles \in {<<>>} \cup {<<c>> : c \in Conversations([i \in 1..MaxBubbles |-> GroupBubbles(i)])}
          /\ pending \in Plans
       \/ /\ bubbles \in {<<c>> : c \in Conversations([i \in 1..MaxBubbles |-> MergeBubbles(i)])}
          /\ pending = <<"current", "current">>
    /\ given = bubbles
    /\ composerData \in {ComposerData(<<>>, t) : t \in {0, T0}}
    /\ tables = NoTables
    /\ calls = <<>>
    /\ legacy = <<>>
    /\ snapshot = NoSnapshot
    /\ recent = <<>>
    /\ ExtractIdle
    /\ ClineIdle

-----------------------------------------------------------------------------
(* Operations *)

\* a call of reconstructConversation (extension.js 352-710) that reads the
\* clock value t at line 453
Reconstruct ==
    /\ pending # <<>> /\ Head(pending) = "current"
    /\ \E t \in Clock :
          /\ calls' = Append(calls,
                             reconstructConversation(bubbles, tables, composerData, t))
          /\ bubbles' = BubblesAfter(bubbles, composerData, t)
    /\ pending' = Tail(pending)
    /\ UNCHANGED <<given, composerData, tables, legacy, snapshot, recent>>
    /\ UNCHANGED <<extractVars, clineVars>>

\* a call of the older definition (extension.js 907-1152)
ReconstructLegacy ==
    /\ pending # <<>> /\ Head(pending) = "older"
    /\ \E t \in Clock :
          legacy' = Append(legacy,
                reconstructConversationLegacy(bubbles, tables, composerData, t))
    /\ pending' = Tail(pending)
    /\ UNCHANGED <<given, bubbles, composerData, tables, calls, snapshot, recent>>
    /\ UNCHANGED <<extractVars, clineVars>>

Next == Reconstruct \/ ReconstructLegacy

Init == InitGroup

Spec == Init /\ [][Next]_vars

\* Conversations of user bubbles that differ in timestamps, under order hints
OrderBubbles(i) ==
    {Bubble(Id(i), UserType, "", [NoContent EXCEPT !.text = TextOf(Id(i))], t) :
        t \in {0} \cup Stamps}

HintIds(n) == {Id(i) : i \in 1..n} \cup {"zz", ""}

InitOrder ==
    /\ \E n \in 1..MaxBubbles :
          /\ bubbles \in {<<c>> : c \in {f \in [1..n -> UNION {OrderBubbles(i) : i \in 1..n}] :
                                            \A i \in 1..n : f[i] \in OrderBubbles(i)}}
          /\ composerData \in {ComposerData(h, 0) : h \in SeqsUpTo(HintIds(n), MaxHint)}
    /\ given = bubbles
    /\ tables = NoTables
    /\ pending \in {<<"current">>, <<"older">>}
    /\ calls = <<>>
    /\ legacy = <<>>
    /\ snapshot = NoSnapshot
    /\ recent = <<>>
    /\ ExtractIdle
    /\ ClineIdle

SpecOrder == InitOrder /\ [][Next]_vars

\* Tool invocations: one assistant bubble that carries only the invocation
ParamKeys == {"file_path", "path", "old_string", "new_string", "content",
              "command", "pattern", "relative_workspace_path"}

ValuesOf(k) ==
    CASE k = "file_path"  -> {<<>>, Str("a.ts")}
      [] k = "old_string" -> {<<>>, Str("x")}
      [] k = "new_string" -> {Str("y")}
      [] OTHER            -> {Str("v")}

ParamMaps ==
    UNION {{m \in [S -> UNION {ValuesOf(k) : k \in S}] : \A k \in S : m[k] \in ValuesOf(k)} :
             S \in {S \in SUBSET ParamKeys : Cardinality(S) <= MaxKeys}}

Args(form, map, words) ==
    [form |-> form, map |-> map, words |-> words,
     text |-> IF form = "badplain" THEN Str("raw text") ELSE <<>>]

RawArgsShapes ==
    {NoArgs}
      \cup {Args(f, m, {}) : f \in {"jsonobj", "object"}, m \in ParamMaps}
      \cup {Args("badpairs", m, {}) : m \in ParamMaps \ {EmptyMap}}
      \cup {Args(f, EmptyMap, {}) :
              f \in {"jsonnull", "jsonnum", "jsonstr", "jsonarr", "number", "array"}}
      \cup {Args("jsonstr", EmptyMap, {"command"}), Args("array", EmptyMap, {"file_path"})}
      \cup {Args("badplain", EmptyMap, w) :
              w \in {{}, {"command"}, {"file_path", "old_string"}, {"unknown_tool"}}}

Unnamed == [name |-> "", tool |-> "", toolName |-> "", tool_name |-> ""]

NameShapes ==
    {Unnamed,
     [Unnamed EXCEPT !.name = "unknown_tool"], [Unnamed EXCEPT !.tool = "unknown_tool"],
     [Unnamed EXCEPT !.toolName = "unknown_tool"],
     [Unnamed EXCEPT !.tool_name = "unknown_tool"],
     [Unnamed EXCEPT !.name = "edit_file"], [Unnamed EXCEPT !.toolName = "read_file"]}

Invocation(names, rawArgs, result) ==
    [name |-> names.name, tool |-> names.tool, toolName |-> names.toolName,
     tool_name |-> names.tool_name, rawArgs |-> rawArgs, result |-> result,
     status |-> "completed"]

ToolBubble(toolData) ==
    Bubble("b1", AssistantType, "genA",
           [NoContent EXCEPT !.toolFormerData = <<toolData>>], T0)

InitTool ==
    /\ \/ /\ bubbles \in {<<<<ToolBubble(Invocation(n, a, r))>>>> :
                             n \in NameShapes, a \in RawArgsShapes,
                             r \in {NoResult, SpecDiffResult}}
          /\ pending = <<"current">>
       \/ /\ bubbles \in {<<<<ToolBubble(Invocation(n, a, NoResult))>>>> :
                             n \in NameShapes,
                             a \in {x \in RawArgsShapes : x.map = EmptyMap}}
          /\ pending = <<"older">>
    /\ given = bubbles
    /\ composerData = ComposerData(<<>>, 0)
    /\ tables = NoTables
    /\ calls = <<>>
    /\ legacy = <<>>
    /\ snapshot = NoSnapshot
    /\ recent = <<>>
    /\ ExtractIdle
    /\ ClineIdle

SpecTool == InitTool /\ [][Next]_vars

\* Tool results: diffs of up to MaxDiffLines lines, in one chunk or two
DiffLines ==
    {Line("- ", "old"), Line("+ ", "new"), Line("  ", "ctx"), Line("@@", "hdr"),
     Line("- ", ""), Line("- ", " in")}

Results ==
    {NoResult, [NoResult EXCEPT !.form = "bad"], [NoResult EXCEPT !.form = "nodiff"]}
      \cup UNION {{[form |-> "diff", lines |-> ls, cut |-> c] :
                      c \in {x \in 0..Len(ls) : x = 1 \/ x = Len(ls)}} :
                   ls \in SeqsUpTo(DiffLines, MaxDiffLines)}

PathOnly == SetKey(EmptyMap, "target_file", Str("a.ts"))
PathOldNew ==
    SetKey(SetKey(SetKey(EmptyMap, "file_path", Str("a.ts")), "old_string", Str("x")),
           "new_string", Str("y"))

EditShapes ==
    {Invocation([Unnamed EXCEPT !.name = "edit_file"], a, NoResult) :
        a \in {NoArgs, Args("jsonobj", PathOnly, {}), Args("jsonobj", PathOldNew, {}),
               Args("object", PathOnly, {}), Args("array", EmptyMap, {}),
               Args("jsonnull", EmptyMap, {}), Args("jsonnum", EmptyMap, {})}}
      \cup {Invocation(Unnamed, a, NoResult) :
              a \in {Args("jsonobj", PathOldNew, {}),
                     Args("badplain", EmptyMap, {"file_path", "old_string"})}}
      \cup {Invocation([Unnamed EXCEPT !.name = n], Args("jsonobj", PathOnly, {}), NoResult) :
              n \in {"Edit", "search_replace", "read_file"}}

InitDiff ==
    /\ bubbles \in {<<<<ToolBubble([t EXCEPT !.result = r])>>>> :
                       t \in EditShapes, r \in Results}
    /\ pending \in {<<"current">>} \cup
                   (IF ComposerBubbles(bubbles)[1].toolFormerData[1].result.form # "diff"
                    THEN {<<"older">>} ELSE {})
    /\ given = bubbles
    /\ composerData = ComposerData(<<>>, 0)
    /\ tables = NoTables
    /\ calls = <<>>
    /\ legacy = <<>>
    /\ snapshot = NoSnapshot
    /\ recent = <<>>
    /\ ExtractIdle
    /\ ClineIdle

SpecDiff == InitDiff /\ [][Next]_vars

\* Timestamps: bubbles of one generation that differ in the timestamp fields
\* they carry, under a metadata record that may carry a timestamp of its own
\* or an embedded conversation array, and no order hint
T1 == CHOOSE t \in Stamps : \A u \in Stamps : u <= t

StampBubbles(i) ==
    {Bubble(Id(i), UserType, "", [NoContent EXCEPT !.text = TextOf(Id(i))], t) :
        t \in {0} \cup Stamps}
      \cup {[Bubble(Id(i), UserType, "", [NoContent EXCEPT !.text = TextOf(Id(i))], 0)
                EXCEPT !.createdAt = T0]}
      \cup {Bubble(Id(i), AssistantType, "genA",
                   [NoContent EXCEPT !.text = TextOf(Id(i))], t) : t \in {0, T0}}
      \cup {[Bubble(Id(i), AssistantType, "genA",
                    [NoContent EXCEPT !.text = TextOf(Id(i))], 0)
                EXCEPT !.updatedAt = T1]}

StampRecords ==
    {ComposerData(<<>>, 0), ComposerData(<<>>, T0),
     [ComposerData(<<>>, 0) EXCEPT !.conversation = <<T0, T1>>],
     [ComposerData(<<>>, T0) EXCEPT !.conversation = <<T1>>]}

InitStamp ==
    /\ bubbles \in {<<c>> : c \in Conversations([i \in 1..MaxBubbles |-> StampBubbles(i)])}
    /\ \/ composerData \in StampRecords /\ pending = <<"current">>
       \/ composerData = ComposerData(<<>>, 0) /\ pending = <<"older">>
    /\ given = bubbles
    /\ tables = NoTables
    /\ calls = <<>>
    /\ legacy = <<>>
    /\ snapshot = NoSnapshot
    /\ recent = <<>>
    /\ ExtractIdle
    /\ ClineIdle

SpecStamp == InitStamp /\ [][Next]_vars

\* Data quality: a metadata record that is missing or whose hint names no
\* bubble, bubbles whose thinking payload is empty, whose rawArgs is an array
\* and whose result is no JSON
QualityBubbles(i) ==
    {Bubble(Id(i), UserType, "", [NoContent EXCEPT !.text = TextOf(Id(i))], 0),
     Bubble(Id(i), AssistantType, "", [NoContent EXCEPT !.text = TextOf(Id(i))], 0),
     Bubble(Id(i), AssistantType, "", [NoContent EXCEPT !.thinking = <<Str("")>>], 0),
     Bubble(Id(i), AssistantType, "",
            [NoContent EXCEPT !.toolFormerData =
                <<ToolData("edit_file", Args("array", EmptyMap, {}),
                           [NoResult EXCEPT !.form = "bad"])>>], 0)}

QualityRecords ==
    {NoComposerData}
      \cup {ComposerData(h, 0) : h \in {<<>>, <<"">>, <<"zz">>, <<"b1", "">>}}

InitQuality ==
    /\ bubbles \in {<<>>} \cup
          {<<c>> : c \in Conversations([i \in 1..MaxBubbles |-> QualityBubbles(i)])}
    /\ composerData \in QualityRecords
    /\ pending \in {<<"current">>, <<"older">>}
    /\ given = bubbles
    /\ tables = NoTables
    /\ calls = <<>>
    /\ legacy = <<>>
    /\ snapshot = NoSnapshot
    /\ recent = <<>>
    /\ ExtractIdle
    /\ ClineIdle

SpecQuality == InitQuality /\ [][Next]_vars

-----------------------------------------------------------------------------
(* extractCursorDiskKV (extractor.js 56-187) *)

\* a promise that is rejected
Rejected == [rejected |-> TRUE, extracted |-> FALSE, composers |-> <<>>, bubbles |-> <<>>]

\* lines 67, 76, 83 and 96: the object {} the promise resolves with
NoData == [rejected |-> FALSE, extracted |-> FALSE, composers |-> <<>>, bubbles |-> <<>>]

\* lines 116-121 and 167: a row is read when its value is not empty and
\* JSON.parse accepts it
RowsRead(rows, kind) == SelectSeq(rows, LAMBDA r : r.kind = kind /\ r.json = "ok")

\* a bug: a failure to reach the store rejects the promise
extractRejecting(snap) == IF snap.failure # "none" THEN Rejected ELSE NoData

\* failure "platform": getDbPath throws at line 50, called at line 57 before
\* the try block; the other failures are answered at lines 64-77, 82-85 and
\* 94-98. Rows come ORDER BY key, so each table holds its rows in key order
extractCursorDiskKV(snap) ==
    IF snap.failure = "platform" THEN Rejected
    ELSE IF snap.failure # "none" THEN NoData
    ELSE [rejected |-> FALSE, extracted |-> TRUE,
          composers |-> RowsRead(snap.rows, "composerData"),
          bubbles |-> RowsRead(snap.rows, "bubbleId")]

-----------------------------------------------------------------------------
(* getConversationSummary (extension.js 714-894) *)

\* lines 714-734; 0 stands for null
getLatestTimestampFromMessages(messages) ==
    MaxOf({t \in {messages[i].timestamp : i \in 1..Len(messages)} : t > 0})

\* line 861: fallbackTime.getFullYear() > 2020, on the scale of Stamps
Year2021 == 1000000

FirstPositive(stamps) ==
    IF SelectSeq(stamps, LAMBDA t : t > 0) = <<>> THEN 0
    ELSE Head(SelectSeq(stamps, LAMBDA t : t > 0))

\* lines 836-859: the first positive timestamp field of the metadata record,
\* else of the first entry of its conversation array that has one
FallbackTime(cd) ==
    IF ~cd.defined THEN 0
    ELSE IF cd.createdAt > 0 THEN cd.createdAt
    ELSE FirstPositive(cd.conversation)

\* lines 870-873: the hash of the last eight characters of the composer id
HashCode(id) ==
    CASE id = "c1" -> 3118
      [] id = "c2" -> 3119
      [] id = "c3" -> 3120
      [] OTHER     -> 3121

Min(a, b) == IF a <= b THEN a ELSE b

\* lines 864-881, in half hours: now - (min(count * 0.5, 48) + |hash % 24|) hours
LastResort(count, id, clock) ==
    clock - (Min(count, 96) + 2 * (HashCode(id) % 24)) * 1800000

\* lines 827-882
LastMessageTime(fromMessages, fallbackTime, count, id, clock) ==
    IF fromMessages # 0 THEN fromMessages
    ELSE IF fallbackTime >= Year2021 THEN fallbackTime
    ELSE LastResort(count, id, clock)

\* lines 814-894; title and preview are left out
getConversationSummary(conversation, id, clock) ==
    [id |-> id,
     messageCount |-> Len(conversation.messages),
     userMessages |-> CountType(conversation.messages, "user"),
     assistantMessages |-> CountType(conversation.messages, "assistant"),
     lastMessageTime |->
         LastMessageTime(getLatestTimestampFromMessages(conversation.messages),
                         FallbackTime(conversation.composer_data),
                         Len(conversation.messages), id, clock)]

-----------------------------------------------------------------------------
(* getRecentConversations (chat-selector.js 7-47) *)

\* extractedData.bubbles[composerId] as reconstructConversation reads it
BubblesOf(data, id) ==
    IF SelectSeq(data.bubbles, LAMBDA r : r.composerId = id) = <<>> THEN <<>>
    ELSE <<[i \in 1..Len(SelectSeq(data.bubbles, LAMBDA r : r.composerId = id)) |->
              SelectSeq(data.bubbles, LAMBDA r : r.composerId = id)[i].value]>>

\* lines 21-28: one reconstructed Conversation for each composer
Reconstructed(data, clock) ==
    [i \in 1..Len(data.composers) |->
        [id |-> data.composers[i].composerId,
         conversation |->
             reconstructConversation(BubblesOf(data, data.composers[i].composerId),
                                     NoTables, data.composers[i].value, clock)]]

\* lines 38-40: Array.prototype.sort is stable; most recent first
RECURSIVE InsertByTime(_, _)
InsertByTime(sorted, summary) ==
    IF sorted = <<>> THEN <<summary>>
    ELSE IF Head(sorted).lastMessageTime >= summary.lastMessageTime
    THEN <<Head(sorted)>> \o InsertByTime(Tail(sorted), summary)
    ELSE <<summary>> \o sorted

\* a bug: the sort of lines 38-40 left out
SortNone(sorted, rest) == rest

RECURSIVE SortByTime(_, _)
SortByTime(sorted, rest) ==
    IF rest = <<>> THEN sorted
    ELSE SortByTime(InsertByTime(sorted, Head(rest)), Tail(rest))

\* lines 30-35: the summaries of the conversations that have messages
Summaries(all, clock) ==
    [i \in 1..Len(SelectSeq(all, LAMBDA c : c.conversation.messages # <<>>)) |->
        getConversationSummary(
            SelectSeq(all, LAMBDA c : c.conversation.messages # <<>>)[i].conversation,
            SelectSeq(all, LAMBDA c : c.conversation.messages # <<>>)[i].id, clock)]

\* lines 43-45: slice(0, limit)
Slice(summaries, limit) == SubSeq(summaries, 1, Min(limit, Len(summaries)))

\* lines 18-46: an exception of reconstructConversation rejects the promise
RecentOf(all, limit, clock) ==
    IF \E i \in 1..Len(all) : all[i].conversation.threw
    THEN [rejected |-> TRUE, summaries |-> <<>>]
    ELSE [rejected |-> FALSE,
          summaries |-> Slice(SortByTime(<<>>, Summaries(all, clock)), limit)]

\* lines 7-47
getRecentConversations(limit, snap, clock) ==
    IF extractCursorDiskKV(snap).rejected THEN [rejected |-> TRUE, summaries |-> <<>>]
    ELSE IF extractCursorDiskKV(snap).composers = <<>>
    THEN [rejected |-> FALSE, summaries |-> <<>>]
    ELSE RecentOf(Reconstructed(extractCursorDiskKV(snap), clock), limit, clock)

\* The rows of the store: for each composer a composerData row and at most
\* one bubble row, each of which may hold no value or no JSON
ComposerId(i) == <<"c1", "c2", "c3", "c4">>[i]

Row(kind, composerId, json, value) ==
    [kind |-> kind, composerId |-> composerId, json |-> json, value |-> value]

StoredBubble(i, t) ==
    Bubble("b1", UserType, "", [NoContent EXCEPT !.text = TextOf(ComposerId(i))], t)

StoredRows(i) ==
    {<<Row("bubbleId", ComposerId(i), "ok", StoredBubble(i, 0)),
       Row("composerData", ComposerId(i), "ok", cd)>> :
          cd \in {ComposerData(<<>>, 0), ComposerData(<<>>, T0), ComposerData(<<>>, 1),
                  NoComposerData}}
      \cup {<<Row("bubbleId", ComposerId(i), j, StoredBubble(i, t)),
              Row("composerData", ComposerId(i), "ok", ComposerData(<<>>, 0))>> :
                t \in Stamps, j \in {"ok", "bad"}}
      \cup {<<Row("composerData", ComposerId(i), "ok", ComposerData(<<>>, 0))>>}
      \cup {<<Row("bubbleId", ComposerId(i), "ok", StoredBubble(i, T0)),
              Row("composerData", ComposerId(i), j, ComposerData(<<>>, 0))>> :
                j \in {"bad", "empty"}}

RECURSIVE RowsOf(_, _)
RowsOf(stored, n) == IF n = 0 THEN <<>> ELSE RowsOf(stored, n - 1) \o stored[n]

Failures == {"platform", "access", "copy", "open", "query"}

Snapshots ==
    UNION {{[failure |-> f, rows |-> RowsOf(stored, n)] :
              stored \in {g \in [1..n -> UNION {StoredRows(i) : i \in 1..n}] :
                             \A i \in 1..n : g[i] \in StoredRows(i)},
              f \in IF n = 1 THEN Failures \cup {"none"} ELSE {"none"}} :
           n \in 0..MaxComposers}

InitRecent ==
    /\ snapshot \in Snapshots
    /\ recent = <<>>
    /\ given = <<>>
    /\ bubbles = <<>>
    /\ composerData = ComposerData(<<>>, 0)
    /\ tables = NoTables
    /\ pending = <<>>
    /\ calls = <<>>
    /\ legacy = <<>>
    /\ ExtractIdle
    /\ ClineIdle

\* a call of getRecentConversations(limit) that reads the clock value t
GetRecent ==
    /\ recent = <<>>
    /\ \E limit \in 0..(MaxComposers + 1), t \in Clock :
          recent' = <<[limit |-> limit, result |-> getRecentConversations(limit, snapshot, t)]>>
    /\ UNCHANGED <<given, bubbles, composerData, tables, pending, calls, legacy, snapshot>>
    /\ UNCHANGED <<extractVars, clineVars>>

NextRecent == GetRecent

SpecRecent == InitRecent /\ [][NextRecent]_vars

-----------------------------------------------------------------------------
(* extractCursorDiskKV, step by step (extractor.js 56-187)                 *)
(* Every await and every callback of the function is one step of a call;  *)
(* the steps of two calls interleave. The temporary files are kept by     *)
(* their path, which is made of the clock value read at line 58.          *)

\* no call of reconstructConversation or getRecentConversations is made
CursorIdle ==
    /\ given = <<>>
    /\ bubbles = <<>>
    /\ composerData = ComposerData(<<>>, 0)
    /\ tables = NoTables
    /\ pending = <<>>
    /\ calls = <<>>
    /\ legacy = <<>>
    /\ snapshot = NoSnapshot
    /\ recent = <<>>

\* the call c is between its first step and its return
Running(c) == proc[c].pc \notin {"idle", "done"}

\* tempDbPath, tempWalPath, tempShmPath of a call (lines 58, 61, 62)
TempFile(c, suffix) == <<proc[c].tempDbPath, suffix>>

\* the call c goes to the step pc
Goto(c, pc) == proc' = [proc EXCEPT ![c].pc = pc]

\* the call c returns, or its promise resolves, with result
ResolveWith(c, result) ==
    proc' = [proc EXCEPT ![c].pc = "done", ![c].result = result]

\* the clock goes on by a millisecond
Tick ==
    /\ now < MaxNow
    /\ now' = now + 1
    /\ UNCHANGED <<store, disk, proc, cursorVars, clineVars>>

\* lines 57-62: the call starts and makes its paths of Date.now()
Start(c) ==
    /\ proc[c].pc = "idle"
    /\ proc' = [d \in Commands |->
                  IF d = c
                  THEN [pc |-> "access", tempDbPath |-> now, result |-> "pending",
                        overlapped |-> \E e \in Commands \ {c} : Running(e)]
                  ELSE [proc[d] EXCEPT !.overlapped = @ \/ Running(d)]]
    /\ UNCHANGED <<store, disk, now, cursorVars, clineVars>>

\* lines 66-70: fs.access(globalDbPath)
Access(c) ==
    /\ proc[c].pc = "access"
    /\ IF store.db THEN Goto(c, "copyDb") ELSE ResolveWith(c, "empty")
    /\ UNCHANGED <<store, disk, now, cursorVars, clineVars>>

\* line 73, and 77-79 when the copy fails
CopyDb(c) ==
    /\ proc[c].pc = "copyDb"
    /\ \/ /\ disk' = disk \cup {TempFile(c, "db")}
          /\ Goto(c, "copyWal")
       \/ /\ disk' = disk
          /\ ResolveWith(c, "empty")
    /\ UNCHANGED <<store, now, cursorVars, clineVars>>

\* line 74
CopyWal(c) ==
    /\ proc[c].pc = "copyWal"
    /\ disk' = IF store.wal THEN disk \cup {TempFile(c, "wal")} ELSE disk
    /\ Goto(c, "copyShm")
    /\ UNCHANGED <<store, now, cursorVars, clineVars>>

\* line 75
CopyShm(c) ==
    /\ proc[c].pc = "copyShm"
    /\ disk' = IF store.shm THEN disk \cup {TempFile(c, "shm")} ELSE disk
    /\ Goto(c, "open")
    /\ UNCHANGED <<store, now, cursorVars, clineVars>>

\* lines 83-88: the callback of new sqlite3.Database(tempDbPath,
\* OPEN_READONLY); a file that is not there cannot be opened
Open(c) ==
    /\ proc[c].pc = "open"
    /\ \/ /\ TempFile(c, "db") \in disk
          /\ Goto(c, "query")
       \/ ResolveWith(c, "empty")
    /\ UNCHANGED <<store, disk, now, cursorVars, clineVars>>

\* lines 90-168: the callback of db.all, with an error or with the rows
Query(c) ==
    /\ proc[c].pc = "query"
    /\ \/ Goto(c, "close")
       \/ ResolveWith(c, "empty")
    /\ UNCHANGED <<store, disk, now, cursorVars, clineVars>>

\* lines 170-176: the callback of db.close and fs.unlink(tempDbPath); an
\* unlink of a file that is not there throws, and line 182 resolves
Close(c) ==
    /\ proc[c].pc = "close"
    /\ disk' = disk \ {TempFile(c, "db")}
    /\ IF TempFile(c, "db") \in disk THEN Goto(c, "unlinkWal")
       ELSE ResolveWith(c, "data")
    /\ UNCHANGED <<store, now, cursorVars, clineVars>>

\* line 177: fs.unlink(tempWalPath)
UnlinkWal(c) ==
    /\ proc[c].pc = "unlinkWal"
    /\ disk' = disk \ {TempFile(c, "wal")}
    /\ IF TempFile(c, "wal") \in disk THEN Goto(c, "unlinkShm")
       ELSE ResolveWith(c, "data")
    /\ UNCHANGED <<store, now, cursorVars, clineVars>>

\* lines 178-182: fs.unlink(tempShmPath), then resolve(extractedData)
UnlinkShm(c) ==
    /\ proc[c].pc = "unlinkShm"
    /\ disk' = disk \ {TempFile(c, "shm")}
    /\ ResolveWith(c, "data")
    /\ UNCHANGED <<store, now, cursorVars, clineVars>>

\* the data store, with or without its -wal and -shm files, or not there
Stores ==
    {[db |-> TRUE, wal |-> w, shm |-> h] : w, h \in BOOLEAN}
        \cup {[db |-> FALSE, wal |-> FALSE, shm |-> FALSE]}

InitExtract ==
    /\ store \in Stores
    /\ disk = {}
    /\ proc = [c \in Commands |-> NotCalled]
    /\ now = 0
    /\ CursorIdle
    /\ ClineIdle

NextExtract ==
    \/ Tick
    \/ \E c \in Commands :
          \/ Start(c)
          \/ Access(c)
          \/ CopyDb(c)
          \/ CopyWal(c)
          \/ CopyShm(c)
          \/ Open(c)
          \/ Query(c)
          \/ Close(c)
          \/ UnlinkWal(c)
          \/ UnlinkShm(c)

SpecExtract == InitExtract /\ [][NextExtract]_vars

-----------------------------------------------------------------------------
(* Cline: processUIMessages (cline/conversation-parser.js 56-209)          *)
(* The loop of lines 60-164 is taken one event at a time. A text is kept   *)
(* by its form: none (undefined or ''), plain, or json when JSON.parse     *)
(* reads it, and then by the value it spells: its tool and content         *)
(* properties, and a word for the rest. A string that grows by += is the   *)
(* sequence of the pieces added to it.                                     *)

NoUiText == [form |-> "none", value |-> <<>>]
Spelled(tool, content, rest) == [tool |-> tool, content |-> content, rest |-> rest]
PlainText(body) == [form |-> "plain", value |-> <<Spelled("", <<>>, body)>>]
JsonText(value) == [form |-> "json", value |-> <<value>>]

\* uiMsg.text is truthy
HasText(uiMsg) == uiMsg.text.form # "none"

\* line 62: uiMsg.say || uiMsg.ask
MessageType(uiMsg) == IF uiMsg.say # "" THEN uiMsg.say ELSE uiMsg.ask

\* lines 216-245, for a content kept by what the patterns find in it
extractDiffFromContent(content) ==
    IF content = <<>> THEN <<>>
    ELSE IF content[1] = "search" THEN <<[type |-> "search_replace"]>>
    ELSE IF content[1] = "diff" THEN <<[type |-> "traditional_diff"]>>
    ELSE <<>>

\* a bug: the open assistant message dropped instead of pushed
DropOpen(messages, current) == messages

\* lines 67-70 and 83-85: the open assistant message is pushed
PushOpen(messages, current) ==
    IF current # <<>> /\ current[1].role = "assistant"
    THEN Append(messages, current[1])
    ELSE messages

\* lines 72-78
UserOf(uiMsg) ==
    [role |-> "user", content |-> uiMsg.text, timestamp |-> uiMsg.ts,
     images |-> <<>>, files |-> <<>>]

\* lines 87-94
AssistantOf(uiMsg) ==
    [role |-> "assistant", content |-> <<>>, timestamp |-> uiMsg.ts,
     toolCalls |-> <<>>, thinking |-> <<>>,
     apiInfo |-> uiMsg.text.value, checkpoint |-> <<>>]

\* lines 111-137: the record of a tool event whose text is JSON
ProcessedToolData(uiMsg, toolData) ==
    [name |-> toolData.tool, input |-> toolData, timestamp |-> uiMsg.ts,
     result |-> toolData.content,
     diff |-> IF toolData.tool \in {"editedExistingFile", "replace_in_file"}
              THEN extractDiffFromContent(toolData.content)
              ELSE <<>>]

\* lines 110-143, with an open assistant message
WithTool(message, uiMsg) ==
    IF uiMsg.text.form = "json"
    THEN [message EXCEPT
            !.toolCalls = Append(@, ProcessedToolData(uiMsg, uiMsg.text.value[1]))]
    ELSE [message EXCEPT !.content = Append(@, [k |-> "tool", text |-> uiMsg.text])]

\* the event the loop is at
Event == uiMessages[position]

Looping == position \in 1..Len(uiMessages)

\* currentMessage && currentMessage.role === 'assistant'
AssistantOpen == currentMessage # <<>> /\ currentMessage[1].role = "assistant"

\* lines 65-79
TextEvent ==
    /\ Looping /\ MessageType(Event) = "text"
    /\ clineMessages' = Append(PushOpen(clineMessages, currentMessage), UserOf(Event))
    /\ currentMessage' = <<>>
    /\ position' = position + 1
    /\ UNCHANGED <<uiMessages, apiConversation, cursorVars, extractVars>>

\* lines 81-94; JSON.parse throws on a text that is not JSON, and the call
\* ends: position -1
ApiReqStarted ==
    /\ Looping /\ MessageType(Event) = "api_req_started"
    /\ IF Event.text.form = "plain"
       THEN /\ clineMessages' = PushOpen(clineMessages, currentMessage)
            /\ position' = -1
            /\ UNCHANGED currentMessage
       ELSE /\ clineMessages' = PushOpen(clineMessages, currentMessage)
            /\ currentMessage' = <<AssistantOf(Event)>>
            /\ position' = position + 1
    /\ UNCHANGED <<uiMessages, apiConversation, cursorVars, extractVars>>

\* lines 97-106
Reasoning ==
    /\ Looping /\ MessageType(Event) = "reasoning"
    /\ currentMessage' =
          IF AssistantOpen
          THEN <<[currentMessage[1] EXCEPT !.thinking = @ \o Event.text.value]>>
          ELSE currentMessage
    /\ position' = position + 1
    /\ UNCHANGED <<uiMessages, apiConversation, clineMessages, cursorVars, extractVars>>

\* lines 108-145
Tool ==
    /\ Looping /\ MessageType(Event) = "tool"
    /\ currentMessage' =
          IF AssistantOpen THEN <<WithTool(currentMessage[1], Event)>> ELSE currentMessage
    /\ position' = position + 1
    /\ UNCHANGED <<uiMessages, apiConversation, clineMessages, cursorVars, extractVars>>

\* lines 147-155
CheckpointCreated ==
    /\ Looping /\ MessageType(Event) = "checkpoint_created"
    /\ currentMessage' =
          IF currentMessage # <<>>
          THEN <<[currentMessage[1] EXCEPT !.checkpoint = <<Event.ts>>]>>
          ELSE currentMessage
    /\ position' = position + 1
    /\ UNCHANGED <<uiMessages, apiConversation, clineMessages, cursorVars, extractVars>>

\* lines 157-162
OtherEvent ==
    /\ Looping
    /\ MessageType(Event) \notin {"text", "api_req_started", "reasoning", "tool",
                                   "checkpoint_created"}
    /\ currentMessage' =
          IF currentMessage # <<>> /\ HasText(Event)
          THEN <<[currentMessage[1] EXCEPT
                    !.content = Append(@, [k |-> "line", text |-> Event.text])]>>
          ELSE currentMessage
    /\ position' = position + 1
    /\ UNCHANGED <<uiMessages, apiConversation, clineMessages, cursorVars, extractVars>>

\* lines 192-206: what one API message adds to the assistant message it is
\* matched with
Enhanced(message, contents) ==
    [message EXCEPT
        !.content = @ \o [i \in 1..Len(SelectSeq(contents, LAMBDA c : c.type = "text")) |->
                            [k |-> "api",
                             text |-> SelectSeq(contents, LAMBDA c : c.type = "text")[i].text]],
        !.toolCalls = @ \o [i \in 1..Len(SelectSeq(contents, LAMBDA c : c.type = "tool_use")) |->
                              [name |-> SelectSeq(contents, LAMBDA c : c.type = "tool_use")[i].name]]]

\* lines 187-190: the first assistant message within 5 seconds of the API
\* message; 0 when there is none
Matched(messages, apiMsg) ==
    IF \E m \in 1..Len(messages) :
          /\ messages[m].role = "assistant"
          /\ messages[m].timestamp - apiMsg.timestamp < 5000
          /\ apiMsg.timestamp - messages[m].timestamp < 5000
    THEN CHOOSE m \in 1..Len(messages) :
            /\ messages[m].role = "assistant"
            /\ messages[m].timestamp - apiMsg.timestamp < 5000
            /\ apiMsg.timestamp - messages[m].timestamp < 5000
            /\ \A n \in 1..(m - 1) :
                  ~(/\ messages[n].role = "assistant"
                    /\ messages[n].timestamp - apiMsg.timestamp < 5000
                    /\ apiMsg.timestamp - messages[n].timestamp < 5000)
    ELSE 0

\* lines 182-209
RECURSIVE enhanceWithApiData(_, _)
enhanceWithApiData(messages, api) ==
    IF api = <<>> THEN messages
    ELSE IF Head(api).role = "assistant" /\ Head(api).content # <<>>
              /\ Matched(messages, Head(api)) # 0
    THEN enhanceWithApiData(
            [messages EXCEPT ![Matched(messages, Head(api))] =
                Enhanced(@, Head(api).content)],
            Tail(api))
    ELSE enhanceWithApiData(messages, Tail(api))

\* lines 166-174: the end of the loop, and the return: position 0
Finish ==
    /\ position = Len(uiMessages) + 1
    /\ clineMessages' =
          enhanceWithApiData(
              IF currentMessage # <<>> THEN Append(clineMessages, currentMessage[1])
              ELSE clineMessages,
              apiConversation)
    /\ position' = 0
    /\ UNCHANGED <<uiMessages, apiConversation, currentMessage, cursorVars, extractVars>>

\* a UI event at the place i of the log, its timestamp 3 seconds after the
\* one before
UiEvent(say, ask, text, i) ==
    [say |-> say, ask |-> ask, text |-> text, ts |-> 3000 * i, partial |-> FALSE]

ToolJson(tool, content) == JsonText(Spelled(tool, content, ""))

UiEvents(i) ==
    {UiEvent("text", "", PlainText("hi"), i),
     UiEvent("", "tool", ToolJson("read_file", <<>>), i),
     UiEvent("api_req_started", "", NoUiText, i),
     UiEvent("api_req_started", "", JsonText(Spelled("", <<>>, "request")), i),
     UiEvent("api_req_started", "", PlainText("{"), i),
     UiEvent("reasoning", "", PlainText("why"), i),
     UiEvent("tool", "", ToolJson("replace_in_file", <<"search">>), i),
     UiEvent("tool", "", PlainText("raw"), i),
     UiEvent("checkpoint_created", "", NoUiText, i),
     UiEvent("completion_result", "", PlainText("done"), i)}

\* the logs of n events
RECURSIVE LogsOf(_)
LogsOf(n) ==
    IF n = 0 THEN {<<>>}
    ELSE {Append(log, e) : log \in LogsOf(n - 1), e \in UiEvents(n)}

UiLogs == UNION {LogsOf(n) : n \in 0..MaxEvents}

ApiConversations ==
    {<<>>,
     <<[role |-> "user", timestamp |-> 0, content |-> <<[type |-> "text", text |-> "q"]>>],
       [role |-> "assistant", timestamp |-> 0,
        content |-> <<[type |-> "text", text |-> "answer"],
                      [type |-> "tool_use", name |-> "read_file"]>>]>>}

InitCline ==
    /\ uiMessages \in UiLogs
    /\ apiConversation \in ApiConversations
    /\ position = 1
    /\ clineMessages = <<>>
    /\ currentMessage = <<>>
    /\ CursorIdle
    /\ ExtractIdle

NextCline ==
    \/ TextEvent
    \/ ApiReqStarted
    \/ Reasoning
    \/ Tool
    \/ CheckpointCreated
    \/ OtherEvent
    \/ Finish

SpecCline == InitCline /\ [][NextCline]_vars

-----------------------------------------------------------------------------
(* Properties *)

Entries == ComposerBubbles(bubbles)

Called == calls # <<>>

\* the Conversations returned so far
Returned == {i \in 1..Len(calls) : ~calls[i].threw}

\* a bubble carries text, a thinking payload or a tool invocation
Carries(b) == b.text # <<>> \/ b.thinking # <<>> \/ b.toolFormerData # <<>>

PositionsOf(messages, id) == {i \in 1..Len(messages) : messages[i].id = id}

\* C1: two calls of reconstructConversation on the same inputs return equal
\* Conversations, whatever the clock reads at each call and although the
\* first call ran before the second.
C1_Deterministic == Len(calls) >= 2 => calls[1] = calls[2]

\* two calls were made on a conversation without any timestamp, so that the
\* clock was read, and on one whose tool invocation the first call rewrote
C1_Witness ==
    /\ Len(calls) >= 2
    /\ Len(calls[2].messages) >= 2
    /\ composerData.createdAt = 0
    /\ \E i \in 1..Len(Entries) :
          /\ Entries[i].toolFormerData # <<>>
          /\ "old_string" \in DOMAIN Entries[i].toolFormerData[1].rawArgs.map

UserBubbles == {i \in 1..Len(Entries) : Entries[i].type = 1 /\ Carries(Entries[i])}

UserMessages(messages) == {i \in 1..Len(messages) : messages[i].type = "user"}

\* C2: every content-bearing user bubble is the id of exactly one user
\* message, every user message is such a bubble and carries its text, and
\* there are as many user messages as content-bearing user bubbles.
C2_UserBubblesOneToOne ==
    \A c \in Returned :
        LET messages == calls[c].messages IN
        /\ \A i \in UserBubbles :
              Cardinality(PositionsOf(messages, Entries[i].id)
                            \cap UserMessages(messages)) = 1
        /\ \A m \in UserMessages(messages) :
              \E i \in UserBubbles : /\ Entries[i].id = messages[m].id
                                     /\ Entries[i].text = messages[m].raw_content
        /\ Cardinality(UserMessages(messages)) = Cardinality(UserBubbles)

\* a call returned for a conversation with a user bubble that has only a
\* thinking payload, one that has only a tool invocation and one with text
C2_Witness ==
    /\ Returned # {}
    /\ \E i, j, k \in 1..Len(Entries) :
          /\ Entries[i].type = 1 /\ Entries[j].type = 1 /\ Entries[k].type = 1
          /\ Entries[i].text = <<>> /\ Entries[i].thinking # <<>>
          /\ Entries[j].text = <<>> /\ Entries[j].toolFormerData # <<>>
          /\ Entries[k].text # <<>>

\* the content-bearing bubbles in the order used for grouping
Ordered == SelectSeq(SortedBubbles(bubbles, composerData), Carries)

\* the message of user bubble Ordered[u] has an assistant message on each side
Enclosed(messages, u) ==
    \E m \in 1..Len(messages) :
        /\ messages[m].id = Ordered[u].id /\ messages[m].type = "user"
        /\ \E a \in 1..(m - 1) : messages[a].type = "assistant"
        /\ \E a \in (m + 1)..Len(messages) : messages[a].type = "assistant"

UserClosesGroup(messages) ==
    /\ \A u \in 1..Len(Ordered) :
          (/\ Ordered[u].type = 1
           /\ \E a \in 1..(u - 1) : Ordered[a].type # 1
           /\ \E a \in (u + 1)..Len(Ordered) : Ordered[a].type # 1)
          => Enclosed(messages, u)
    /\ (/\ Len(Ordered) = 3
        /\ Ordered[1].type # 1 /\ Ordered[2].type = 1 /\ Ordered[3].type # 1)
       => /\ Len(messages) = 3
          /\ messages[1].type = "assistant"
          /\ messages[2].type = "user"
          /\ messages[3].type = "assistant"

\* C3: a user bubble closes the open assistant group: assistant bubbles on
\* both sides of a content-bearing user bubble give an assistant message on
\* each side of its user message, and [assistant, user, assistant] gives three
\* messages in that order; stated of both definitions of
\* reconstructConversation.
C3_UserClosesGroup ==
    /\ \A c \in Returned : UserClosesGroup(calls[c].messages)
    /\ \A l \in 1..Len(legacy) :
          ~legacy[l].threw => UserClosesGroup(legacy[l].messages)

\* the same of the current definition (lines 352-710) alone, which holds
C3_CurrentDefinition == \A c \in Returned : UserClosesGroup(calls[c].messages)

Groups == MessageGroups(SortedBubbles(bubbles, composerData))

RECURSIVE Concat(_)
Concat(ss) == IF ss = <<>> THEN <<>> ELSE Head(ss) \o Concat(Tail(ss))

\* what one bubble adds to tool_calls, thinking_blocks and code_blocks
ToolCallsOf(b) ==
    parseMessageContent(b.text).tool_calls
        \o (IF b.toolFormerData = <<>> THEN <<>>
            ELSE LET t == NormalizeTool(b.toolFormerData[1]) IN
                 <<[tool_name |-> t.tool_name, parameters |-> t.parameters,
                    status |-> t.status, result |-> t.result,
                    raw_content |-> t.raw_content,
                    diff_extracted |-> t.diff_extracted]>>)

ThinkingBlocksOf(b) ==
    parseMessageContent(b.text).thinking_blocks
        \o (IF b.thinking = <<>> THEN <<>>
            ELSE IF b.thinking[1] \in {<<>>, <<"">>}
                 THEN <<Str("_[Assistant thinking...]_")>>
                 ELSE <<b.thinking[1]>>)

CodeBlocksOf(b) == parseMessageContent(b.text).code_blocks

Over(bs, F(_)) == Concat([i \in 1..Len(bs) |-> F(bs[i])])

FirstIndex(xs, x) == CHOOSE i \in 1..Len(xs) : xs[i] = x /\ \A j \in 1..(i - 1) : xs[j] # x

\* ts is xs without the later repetitions of an equal element
FirstOccurrences(ts, xs) ==
    /\ Range(ts) = Range(xs)
    /\ \A i, j \in 1..Len(ts) : i < j =>
          /\ ts[i] # ts[j]
          /\ FirstIndex(xs, ts[i]) < FirstIndex(xs, ts[j])

\* index of the group that holds the bubble
GroupOf(id) ==
    {g \in 1..Len(Groups) : \E k \in 1..Len(Groups[g].bubbles) : Groups[g].bubbles[k].id = id}

\* adjacent assistant bubbles of one generation id are in one group
RunsKeptTogether ==
    \A i \in 1..(Len(Ordered) - 1) :
        (/\ Ordered[i].type # 1 /\ Ordered[i + 1].type # 1
         /\ Ordered[i].usageUuid # ""
         /\ Ordered[i].usageUuid = Ordered[i + 1].usageUuid)
        => /\ GroupOf(Ordered[i].id) = GroupOf(Ordered[i + 1].id)
           /\ Cardinality(GroupOf(Ordered[i].id)) = 1

MergedContent(messages, thinkingRule(_, _)) ==
    /\ Len(messages) = Len(Groups)
    /\ \A g \in 1..Len(Groups) :
          Groups[g].type = "assistant" =>
             /\ messages[g].type = "assistant"
             /\ messages[g].content.tool_calls = Over(Groups[g].bubbles, ToolCallsOf)
             /\ messages[g].content.code_blocks = Over(Groups[g].bubbles, CodeBlocksOf)
             /\ thinkingRule(messages[g].content.thinking_blocks,
                             Over(Groups[g].bubbles, ThinkingBlocksOf))

\* C4, as the claim states it: every run of adjacent assistant bubbles of one
\* generation id is one message, and the tool calls, thinking blocks and code
\* blocks of an assistant message are the concatenation, in bubble order, of
\* what its bubbles add, nothing dropped.
C4_PlainConcatenation ==
    \A c \in Returned :
        RunsKeptTogether /\ MergedContent(calls[c].messages, LAMBDA ts, xs : ts = xs)

\* C4, amended: the same, except that the thinking blocks are that
\* concatenation without the later repetitions of an equal string.
C4_ConcatenationDeduplicated ==
    \A c \in Returned :
        RunsKeptTogether /\ MergedContent(calls[c].messages, FirstOccurrences)

\* a call returned a message merged from three bubbles of one generation id,
\* two of which carry equal thinking text and one a tool invocation
C4_Witness ==
    /\ Returned # {}
    /\ \E g \in 1..Len(Groups) :
          /\ Groups[g].type = "assistant"
          /\ Len(Groups[g].bubbles) = 3
          /\ Groups[g].bubbles[1].thinking = Groups[g].bubbles[3].thinking
          /\ Groups[g].bubbles[1].thinking # <<>>
          /\ Groups[g].bubbles[2].toolFormerData # <<>>
          /\ Len(calls[1].messages[g].content.thinking_blocks) = 1

C6_WitnessEmptyEntry == Called /\ bubbles = <<<<>>>>

Hint == composerData.fullConversationHeadersOnly

\* the positions at which the hint names an existing bubble
HintPositions(id) == {h \in 1..Len(Hint) : Hint[h] = id /\ id # ""}

Named(i) == HintPositions(Entries[i].id) # {}

Stamp(b) == IF b.timestamp # 0 THEN b.timestamp ELSE b.createdAt

\* the bubbles of the conversation, all content-bearing user bubbles here,
\* appear as messages in the order used for grouping
MessageOf(messages, i) == CHOOSE m \in 1..Len(messages) : messages[m].id = Entries[i].id

HintOrder(messages) ==
    /\ Len(messages) = Len(Entries)
    /\ \A i \in 1..Len(Entries) : Cardinality(PositionsOf(messages, Entries[i].id)) = 1
    /\ \A i, j \in 1..Len(Entries) :
          /\ (/\ Named(i) /\ Named(j)
              /\ \A p \in HintPositions(Entries[i].id), q \in HintPositions(Entries[j].id) :
                    p < q)
             => MessageOf(messages, i) < MessageOf(messages, j)
          /\ (Named(i) /\ ~Named(j))
             => MessageOf(messages, i) < MessageOf(messages, j)
          /\ (~Named(i) /\ ~Named(j) /\ Stamp(Entries[i]) < Stamp(Entries[j]))
             => MessageOf(messages, i) < MessageOf(messages, j)

\* C5: with a non-empty order hint the bubbles named in it come in the order
\* of their hint positions, whatever their timestamps, then the bubbles not
\* named in it by ascending timestamp; a hint entry that names no bubble of
\* the conversation gives no message.
C5_HintOrder ==
    \A c \in Returned : Len(Hint) > 0 => HintOrder(calls[c].messages)

\* the hint puts b2 before b1 although b1 is earlier, names an unknown bubble
\* too, and leaves a third bubble unnamed
C5_Witness ==
    /\ Returned # {}
    /\ Len(Entries) = 3
    /\ Hint = <<"b2", "b1">>
    /\ Entries[1].timestamp # 0
    /\ Entries[1].timestamp < Entries[2].timestamp
    /\ Entries[3].timestamp = 0
    /\ calls[1].messages[1].id = "b2"
    /\ calls[1].messages[2].id = "b1"

C5_WitnessUnknown ==
    /\ Returned # {}
    /\ Len(Entries) = 2
    /\ Hint = <<"zz", "b2">>
    /\ Entries[2].timestamp > Entries[1].timestamp
    /\ Entries[1].timestamp > 0
    /\ calls[1].messages[1].id = "b2"

\* the tool-call records of the messages of one returned Conversation
RECURSIVE RecordsFrom(_)
RecordsFrom(messages) ==
    IF messages = <<>> THEN <<>>
    ELSE Head(messages).content.tool_calls \o RecordsFrom(Tail(messages))

Records(c) == Range(RecordsFrom(calls[c].messages))

\* the tool invocations of the bubbles as they were before any call
GivenTools ==
    {b.toolFormerData[1] : b \in {x \in Range(ComposerBubbles(given)) : x.toolFormerData # <<>>}}

\* the records a call made of the invocation toolData: raw_content is the
\* invocation, save for what the call wrote into a structured rawArgs
RecordsOf(c, toolData) ==
    {r \in Records(c) :
        /\ "diff_extracted" \in DOMAIN r
        /\ [r.raw_content EXCEPT !.rawArgs.map = toolData.rawArgs.map] = toolData}

NoAlias(toolData) ==
    toolData.name = "" /\ toolData.tool = "" /\ toolData.toolName = ""
        /\ toolData.tool_name = ""

FirstAlias(toolData) ==
    CHOOSE n \in {toolData.name, toolData.tool, toolData.toolName, toolData.tool_name, ""} :
        \/ n # "" /\ toolData.name = n
        \/ n # "" /\ toolData.name = "" /\ toolData.tool = n
        \/ n # "" /\ toolData.name = "" /\ toolData.tool = "" /\ toolData.toolName = n
        \/ n # "" /\ toolData.name = "" /\ toolData.tool = "" /\ toolData.toolName = ""
              /\ toolData.tool_name = n
        \/ n = "" /\ NoAlias(toolData)

IsMapping(parameters) == parameters.kind = "obj"

\* a parameter that is there / that is there with a non-empty value
Present(parameters, k) == k \in DOMAIN parameters.map
Has(parameters, k) == Present(parameters, k) /\ parameters.map[k] # <<>>

\* C7: no call fails on a tool invocation, whatever its rawArgs is, and the
\* parameters of its tool-call record are a key/value mapping. Stated of the
\* invocations that have a name, for which nothing but the resolution of the
\* parameters reads rawArgs.
C7_ParametersAreMapping ==
    \A c \in 1..Len(calls) :
        \A t \in GivenTools :
            FirstAlias(t) \notin {"", "unknown_tool"}
                => /\ ~calls[c].threw
                   /\ RecordsOf(c, t) # {}
                   /\ \A r \in RecordsOf(c, t) : IsMapping(r.parameters)

\* C8: a call on tool invocations that have no name under any alias returns,
\* and the tool_name of each record is a non-empty string.
C8_NameResolutionTotal ==
    \A c \in 1..Len(calls) :
        (\A t \in GivenTools : NoAlias(t))
            => /\ ~calls[c].threw
               /\ \A t \in GivenTools :
                     /\ RecordsOf(c, t) # {}
                     /\ \A r \in RecordsOf(c, t) : r.tool_name # ""

\* the inference applies: no name, or the sentinel, and parameters that are
\* a mapping
Inferred(toolData, r) ==
    FirstAlias(toolData) \in {"", "unknown_tool"} /\ IsMapping(r.parameters)

PathLike(parameters, has(_, _)) ==
    has(parameters, "file_path") \/ has(parameters, "path")
        \/ has(parameters, "target_file")

OldNew(parameters, has(_, _)) ==
    has(parameters, "old_string") \/ has(parameters, "new_string")

\* the example of the specification: rawArgs
\* '{"file_path":"a.ts","old_string":"x","new_string":"y"}' and no name
ExampleEdit(toolData, r) ==
    (NoAlias(toolData) /\ toolData.rawArgs = Args("jsonobj", PathOldNew, {}))
        => /\ r.tool_name = "Edit"
           /\ r.parameters.map["old_string"] = Str("x")
           /\ r.parameters.map["new_string"] = Str("y")

C9_WitnessExample ==
    \E c \in Returned : \E t \in GivenTools : \E r \in RecordsOf(c, t) :
        /\ NoAlias(t)
        /\ t.rawArgs = Args("jsonobj", PathOldNew, {})
        /\ r.tool_name = "Edit"

\* the bodies of the lines of a diff that start with one of the prefixes pfx,
\* in chunk and line order
RECURSIVE Bodies(_, _)
Bodies(lines, pfx) ==
    IF lines = <<>> THEN <<>>
    ELSE LET rest == Bodies(SubSeq(lines, 1, Len(lines) - 1), pfx)
             last == lines[Len(lines)]
         IN  IF last.pfx \in pfx THEN Append(rest, last.body) ELSE rest

Removed == {"- ", "  "}
Added == {"+ ", "  "}

Recovered(r, result) ==
    /\ Present(r.parameters, "old_string")
    /\ r.parameters.map["old_string"] = Trim(Bodies(result.lines, Removed))
    /\ Present(r.parameters, "new_string")
    /\ r.parameters.map["new_string"] = Trim(Bodies(result.lines, Added))

\* the parameters the invocation itself gives, read from its rawArgs
GivenParameters(toolData) ==
    IF toolData.rawArgs.form \in {"jsonobj", "object", "badpairs"}
    THEN toolData.rawArgs.map ELSE EmptyMap

ExplicitOldNew(toolData) ==
    {"old_string", "new_string"} \cap DOMAIN GivenParameters(toolData) # {}

HasBucketLine(result) ==
    result.form = "diff" /\ \E i \in 1..Len(result.lines) :
                                result.lines[i].pfx \in Removed \cup Added

\* C10 as the specification states it: when the resolved tool is a file-edit
\* tool, named or inferred, the parameters are a mapping and the result
\* carries diff chunks with a removed, added or context line, old_string is
\* the removed and context lines and new_string the added and context lines
\* if the invocation gives no old/new string, and the old/new strings it gives
\* are kept.
C10_DiffRecovery ==
    \A c \in Returned : \A t \in GivenTools : \A r \in RecordsOf(c, t) :
        (r.tool_name \in {"edit_file", "Edit"} /\ HasBucketLine(t.result)
              /\ IsMapping(r.parameters))
            => IF ExplicitOldNew(t)
               THEN \A k \in {"old_string", "new_string"} \cap DOMAIN GivenParameters(t) :
                        r.parameters.map[k] = GivenParameters(t)[k]
               ELSE Recovered(r, t.result)

\* C10 as the code has it: recovery is for the resolved name edit_file only,
\* which inference never gives. If the result carries a diff with a removed,
\* added or context line: parameters that are an object or an array get
\* old_string = the removed and context lines and new_string = the added and
\* context lines, in chunk and line order, trimmed, in place of any old/new
\* string given, and diff_extracted is set; a number is left as it is with
\* diff_extracted set; null is left as it is with diff_extracted not set.
\* In every other case parameters are as resolved and diff_extracted is not set.
C10_EditFileRecovery ==
    \A c \in Returned : \A t \in GivenTools : \A r \in RecordsOf(c, t) :
        IF r.tool_name = "edit_file" /\ HasBucketLine(t.result)
        THEN CASE r.parameters.kind \in {"obj", "arr"} ->
                    /\ Recovered(r, t.result)
                    /\ r.diff_extracted
                    /\ \A k \in DOMAIN GivenParameters(t) \ {"old_string", "new_string"} :
                          r.parameters.map[k] = GivenParameters(t)[k]
               [] r.parameters.kind = "null" -> ~r.diff_extracted
               [] OTHER -> r.diff_extracted /\ r.parameters.map = EmptyMap
        ELSE /\ ~r.diff_extracted
             /\ IsMapping(r.parameters) /\ t.rawArgs.form # "badplain"
                   => r.parameters.map = GivenParameters(t)

\* a call returned for edit_file with the result
\* {diff:{chunks:[{diffString:"- old\n+ new\n  ctx"}]}} and no old/new string
C10_Witness ==
    \E c \in Returned : \E t \in GivenTools : \E r \in RecordsOf(c, t) :
        /\ t.name = "edit_file"
        /\ ~ExplicitOldNew(t)
        /\ t.result.lines = <<Line("- ", "old"), Line("+ ", "new"), Line("  ", "ctx")>>
        /\ IsMapping(r.parameters)
        /\ r.parameters.map["old_string"] = <<"old", "ctx">>
        /\ r.parameters.map["new_string"] = <<"new", "ctx">>
        /\ r.diff_extracted

\* a call returned for edit_file with old/new strings given and a diff in
\* two chunks, which replaced them
C10_WitnessReplaced ==
    \E c \in Returned : \E t \in GivenTools : \E r \in RecordsOf(c, t) :
        /\ t.name = "edit_file"
        /\ ExplicitOldNew(t)
        /\ t.result.cut < Len(t.result.lines)
        /\ r.diff_extracted
        /\ r.parameters.map["old_string"] # GivenParameters(t)["old_string"]


\* the timestamp a message group's own bubbles give it: lines 462 and 508-511
GroupStamp(group) ==
    MaxOf({Stamp(group.bubbles[i]) : i \in 1..Len(group.bubbles)})

\* the conversation's latest known timestamp, 0 when there is none
Anchor == getLatestTimestampForComposer(given, composerData)

EarlierAlike(messages, i) == {j \in 1..(i - 1) : messages[j].type = messages[i].type}

StepOf(message) == IF message.type = "user" THEN UserStep ELSE AssistantStep

\* C11: when the conversation has a latest known timestamp T, every message
\* whose own bubbles carry no timestamp gets T plus one step for each message
\* of its own kind placed before it: 60000 for user messages, 30000 for
\* assistant messages
C11_Backfill ==
    \A c \in Returned :
        Anchor # 0 =>
            /\ Len(calls[c].messages) = Len(Groups)
            /\ \A i \in 1..Len(Groups) :
                   GroupStamp(Groups[i]) = 0 =>
                       calls[c].messages[i].timestamp =
                           Anchor + StepOf(calls[c].messages[i])
                                      * Cardinality(EarlierAlike(calls[c].messages, i))

\* three user bubbles without timestamps, placed at T, T + 60000, T + 120000,
\* and in another conversation a second assistant message placed at T + 30000
C11_Witness ==
    /\ Returned # {} /\ Anchor = T0
    /\ Len(calls[1].messages) = 3
    /\ \A i \in 1..3 :
          /\ calls[1].messages[i].type = "user"
          /\ GroupStamp(Groups[i]) = 0
          /\ calls[1].messages[i].timestamp = T0 + (i - 1) * 60000

C11_WitnessAssistant ==
    /\ Returned # {} /\ Anchor # 0
    /\ \E i \in 1..Len(calls[1].messages) :
          /\ calls[1].messages[i].type = "assistant"
          /\ i <= Len(Groups) /\ GroupStamp(Groups[i]) = 0
          /\ calls[1].messages[i].timestamp = Anchor + 30000

\* C12: every message returned carries a positive timestamp, also when no
\* bubble and no metadata field of the conversation carries one
C12_TimestampPopulated ==
    \A c \in Returned :
        \A i \in 1..Len(calls[c].messages) : calls[c].messages[i].timestamp > 0

\* what the code does without an anchor: the messages whose bubbles carry no
\* timestamp are returned with timestamp 0
C12_ZeroWithoutAnchor ==
    \A c \in Returned :
        Anchor = 0 =>
            \A i \in 1..Len(calls[c].messages) : calls[c].messages[i].timestamp = 0

\* C13: reconstructConversation returns a Conversation whatever the quality
\* of the data: a missing metadata record, a hint that is absent, empty or
\* names no bubble, bubbles with missing or malformed fields
C13_NeverRaises ==
    /\ \A c \in 1..Len(calls) : ~calls[c].threw
    /\ \A c \in 1..Len(legacy) : ~legacy[c].threw

\* what the code does on these inputs: it raises exactly when the metadata
\* record is missing
C13_RaisesWithoutMetadata ==
    /\ \A c \in 1..Len(calls) : calls[c].threw <=> ~composerData.defined
    /\ \A c \in 1..Len(legacy) : legacy[c].threw <=> ~composerData.defined

\* C14: a call leaves the bubbles as they were given, nested tool invocation
\* and rawArgs included, and returns this conversation's entries of the
\* codeDiff and checkpoint tables, an empty mapping when it has none
C14_InputsUnchanged ==
    /\ bubbles = given
    /\ \A c \in Returned :
          /\ calls[c].code_diffs = SideTable(tables.codeDiffs)
          /\ calls[c].checkpoints = SideTable(tables.checkpoints)

\* what the code does: the only bubbles a call changes are those whose
\* rawArgs is an object and whose diff was recovered into it
C14_ChangesOnlyObjectArgs ==
    /\ Len(Entries) = Len(ComposerBubbles(given))
    /\ \A i \in 1..Len(Entries) :
          Entries[i] # ComposerBubbles(given)[i] =>
              /\ ComposerBubbles(given)[i].toolFormerData[1].rawArgs.form
                     \in {"object", "array"}
              /\ "old_string" \in DOMAIN Entries[i].toolFormerData[1].rawArgs.map
              /\ [Entries[i] EXCEPT !.toolFormerData[1].rawArgs.map =
                      ComposerBubbles(given)[i].toolFormerData[1].rawArgs.map]
                     = ComposerBubbles(given)[i]

\* the ordered sequence of a call without the bubbles that carry nothing
OrderedCarrying == SelectSeq(SortedBubbles(given, composerData), Carries)

\* C15: a bubble without text, thinking payload and tool invocation
\* contributes to no message and never opens, closes or splits a group: the
\* messages are those obtained with such bubbles removed from the ordered
\* sequence
C15_ContentlessSkipped ==
    \A c \in Returned :
        \A t \in Clock :
            calls[c].messages =
                Synthesis(MessageGroups(OrderedCarrying), Anchor, t, FALSE).messages

\* a user bubble that carries nothing between two assistant bubbles of one
\* generation, returned as one assistant message
C15_Witness ==
    /\ Returned # {}
    /\ Len(Entries) = 3
    /\ Entries[1].type = AssistantType /\ Entries[3].type = AssistantType
    /\ Entries[1].usageUuid = "genA" /\ Entries[3].usageUuid = "genA"
    /\ Entries[2].type = UserType /\ ~Carries(Entries[2])
    /\ Len(calls[1].messages) = 1
    /\ calls[1].messages[1].type = "assistant"

\* the results of getRecentConversations that were returned
Listed == {i \in 1..Len(recent) : ~recent[i].result.rejected}

\* the composers whose rows the store gave
RowsGiven(kind, id) ==
    {i \in 1..Len(snapshot.rows) :
        /\ snapshot.rows[i].kind = kind /\ snapshot.rows[i].composerId = id
        /\ snapshot.rows[i].json = "ok"}

\* C16: getRecentConversations(limit) returns at most limit summaries, each
\* of a different conversation that has at least one message, ordered by
\* lastMessageTime from the most recent on, and every lastMessageTime is set
C16_RecentSummaries ==
    \A r \in Listed :
        LET summaries == recent[r].result.summaries IN
        /\ Len(summaries) <= recent[r].limit
        /\ \A i \in 1..Len(summaries) :
              /\ summaries[i].messageCount >= 1
              /\ summaries[i].lastMessageTime # 0
              /\ RowsGiven("composerData", summaries[i].id) # {}
              /\ RowsGiven("bubbleId", summaries[i].id) # {}
        /\ \A i, j \in 1..Len(summaries) :
              i < j => /\ summaries[i].id # summaries[j].id
                       /\ summaries[i].lastMessageTime >= summaries[j].lastMessageTime

\* two conversations listed in the reverse of their order in the store
C16_Witness ==
    /\ Listed # {}
    /\ Len(recent[1].result.summaries) = 2
    /\ recent[1].result.summaries[1].id = "c2"
    /\ recent[1].result.summaries[1].lastMessageTime
          > recent[1].result.summaries[2].lastMessageTime

\* a limit that cuts the list, and a summary dated by the last resort
C16_WitnessLimit ==
    /\ Listed # {}
    /\ recent[1].limit = 1
    /\ Len(recent[1].result.summaries) = 1
    /\ recent[1].result.summaries[1].lastMessageTime < 0
    /\ RowsGiven("bubbleId", "c1") # {} /\ RowsGiven("bubbleId", "c2") # {}
    /\ RowsGiven("composerData", "c1") # {} /\ RowsGiven("composerData", "c2") # {}

\* the failures to reach the store: the file cannot be accessed or copied,
\* the database cannot be opened or queried
Unreached == {"access", "copy", "open", "query"}

UnreadRows == {i \in 1..Len(snapshot.rows) : snapshot.rows[i].json # "ok"}

\* C17: a store that cannot be reached, or a row that is no JSON, ends in a
\* normal result: extractCursorDiskKV resolves, with nothing when the store
\* was not reached and with the rows it could read otherwise, and
\* getRecentConversations returns an empty list when there are no composers
C17_StoreFailuresResolve ==
    /\ snapshot.failure \in Unreached =>
          /\ extractCursorDiskKV(snapshot) = NoData
          /\ \A r \in 1..Len(recent) :
                recent[r].result = [rejected |-> FALSE, summaries |-> <<>>]
    /\ snapshot.failure = "none" =>
          /\ ~extractCursorDiskKV(snapshot).rejected
          /\ \A c \in 1..MaxComposers + 1 :
                /\ Cardinality({i \in 1..Len(extractCursorDiskKV(snapshot).composers) :
                                  extractCursorDiskKV(snapshot).composers[i].composerId
                                      = ComposerId(c)})
                       = Cardinality(RowsGiven("composerData", ComposerId(c)))
                /\ Cardinality({i \in 1..Len(extractCursorDiskKV(snapshot).bubbles) :
                                  extractCursorDiskKV(snapshot).bubbles[i].composerId
                                      = ComposerId(c)})
                       = Cardinality(RowsGiven("bubbleId", ComposerId(c)))
          /\ (\A c \in 1..MaxComposers + 1 : RowsGiven("composerData", ComposerId(c)) = {}) =>
                \A r \in 1..Len(recent) :
                    recent[r].result = [rejected |-> FALSE, summaries |-> <<>>]

\* the database cannot be opened, and the list returned is empty
C17_Witness ==
    /\ snapshot.failure = "open"
    /\ recent # <<>>
    /\ recent[1].result = [rejected |-> FALSE, summaries |-> <<>>]

\* the only composerData row is no JSON, and the list returned is empty
C17_WitnessRow ==
    /\ snapshot.failure = "none"
    /\ UnreadRows # {}
    /\ \E i \in UnreadRows : snapshot.rows[i].kind = "composerData"
    /\ recent # <<>>
    /\ recent[1].result = [rejected |-> FALSE, summaries |-> <<>>]

\* the bubble ids in the order the bubbles were processed: every bubble of
\* TextOf carries one code block that holds its id
RECURSIVE Processed(_)
Processed(messages) ==
    IF messages = <<>> THEN <<>>
    ELSE [i \in 1..Len(Head(messages).content.code_blocks) |->
             Head(messages).content.code_blocks[i].code]
           \o Processed(Tail(messages))

PlaceOf(ids, id) == CHOOSE p \in 1..Len(ids) : ids[p] = id

\* C18: without an order hint the bubbles are processed by ascending
\* timestamp, a bubble without timestamp first, and bubbles of equal
\* timestamp in the order the log holds them
C18_TimestampOrder ==
    \A c \in Returned :
        Hint = <<>> =>
            LET ids == Processed(calls[c].messages) IN
            /\ Len(ids) = Len(Entries)
            /\ \A i \in 1..Len(Entries) :
                  Cardinality({p \in 1..Len(ids) : ids[p] = Entries[i].id}) = 1
            /\ \A i, j \in 1..Len(Entries) :
                  (\/ Stamp(Entries[i]) < Stamp(Entries[j])
                   \/ Stamp(Entries[i]) = Stamp(Entries[j]) /\ i < j)
                      => PlaceOf(ids, Entries[i].id) < PlaceOf(ids, Entries[j].id)

\* a later bubble of an earlier timestamp is processed first, one without
\* timestamp before both, and two of equal timestamp stay in log order
C18_Witness ==
    /\ Returned # {} /\ Hint = <<>>
    /\ Len(Entries) = 3
    /\ Entries[1].timestamp = T1 /\ Entries[2].timestamp = T0 /\ Entries[3].timestamp = 0
    /\ Entries[3].createdAt = 0
    /\ Processed(calls[1].messages) = <<"b3", "b2", "b1">>

C18_WitnessTie ==
    /\ Returned # {} /\ Hint = <<>>
    /\ Len(Entries) = 3
    /\ Entries[1].timestamp = T0 /\ Entries[2].timestamp = 0 /\ Entries[3].timestamp = T0
    /\ Entries[2].createdAt = 0
    /\ Processed(calls[1].messages) = <<"b2", "b1", "b3">>

\* a generation id that is neither absent, nor a placeholder, nor 'mixed'
Real(u) == u # "" /\ u # "mixed" /\ ~StartsWithBubble(u)

\* the two generation ids differ and neither is absent or a placeholder
Differ(u, v) == Real(u) /\ Real(v) /\ u # v

\* C19: an assistant bubble joins the open assistant group unless no group is
\* open, or its generation id differs from the group's and neither of the two
\* is absent or a placeholder: two assistant messages follow each other only
\* where the ids differ in this way, and no bubble of a message differs in
\* this way from the message's generation id
C19_SplitRule ==
    \A c \in Returned :
        /\ Len(calls[c].messages) = Len(Groups)
        /\ \A g \in 2..Len(Groups) :
              (Groups[g].type = "assistant" /\ Groups[g - 1].type = "assistant")
                 => Differ(Groups[g].bubbles[1].usageUuid,
                           calls[c].messages[g - 1].usage_uuid)
        /\ \A g \in 1..Len(Groups) :
              Groups[g].type = "assistant" =>
                 \A i \in 2..Len(Groups[g].bubbles) :
                     ~Differ(Groups[g].bubbles[i].usageUuid,
                             calls[c].messages[g].usage_uuid)

\* what the code does: a placeholder counts as a generation id of its own, so
\* two assistant messages follow each other where the bubble has a generation
\* id that is not the one, real or placeholder, of the open group
C19_PlaceholderSplits ==
    \A c \in Returned :
        /\ Len(calls[c].messages) = Len(Groups)
        /\ \A g \in 2..Len(Groups) :
              (Groups[g].type = "assistant" /\ Groups[g - 1].type = "assistant")
                 => /\ Groups[g].bubbles[1].usageUuid # ""
                    /\ Groups[g].bubbles[1].usageUuid # calls[c].messages[g - 1].usage_uuid
        /\ \A g \in 1..Len(Groups) :
              Groups[g].type = "assistant" =>
                 \A i \in 2..Len(Groups[g].bubbles) :
                     Groups[g].bubbles[i].usageUuid
                         \in {"", calls[c].messages[g].usage_uuid}

\* the message that holds the bubble id: every bubble of TextOf carries one
\* code block that holds its id
MessageHolding(messages, id) ==
    CHOOSE m \in 1..Len(messages) :
        \E i \in 1..Len(messages[m].content.code_blocks) :
            messages[m].content.code_blocks[i].code = id

\* the bubbles i..j of the ordered sequence are assistant bubbles with text,
\* the first opens a group without a generation id of its own, and the
\* others carry two or more distinct generation ids
TwoIdsAbsorbed(i, j) ==
    /\ \A k \in i..j : /\ OrderedCarrying[k].type = AssistantType
                        /\ OrderedCarrying[k].text # NoText
    /\ i = 1 \/ OrderedCarrying[i - 1].type = UserType
    /\ OrderedCarrying[i].usageUuid = ""
    /\ Cardinality({OrderedCarrying[k].usageUuid : k \in (i + 1)..j} \ {""}) >= 2

\* C20: a group that has absorbed bubbles of two or more distinct generation
\* ids has the generation id 'mixed', and stays one group whatever the ids of
\* the assistant bubbles that follow
C20_MixedOnceTwoIds ==
    \A c \in Returned :
        \A i, j \in 1..Len(OrderedCarrying) :
            (i < j /\ TwoIdsAbsorbed(i, j)) =>
                /\ MessageHolding(calls[c].messages, OrderedCarrying[j].id)
                      = MessageHolding(calls[c].messages, OrderedCarrying[i].id)
                /\ calls[c].messages[MessageHolding(calls[c].messages,
                                                    OrderedCarrying[i].id)].usage_uuid
                      = "mixed"

\* what the code does: no message is returned with the generation id 'mixed'
C20_NeverMixed ==
    \A c \in Returned :
        \A m \in 1..Len(calls[c].messages) : calls[c].messages[m].usage_uuid # "mixed"

\* the messages of a call whose timestamp was synthesized: the anchor exists
\* and the bubbles of the message carry no timestamp
Synthesized(c) ==
    {i \in 1..Len(calls[c].messages) :
        Anchor # 0 /\ i <= Len(Groups) /\ GroupStamp(Groups[i]) = 0}

\* C21: of two messages with synthesized timestamps the one placed earlier
\* has a timestamp not greater than the one placed later, whatever their roles
C21_Monotonic ==
    \A c \in Returned :
        \A i, j \in Synthesized(c) :
            i < j => calls[c].messages[i].timestamp <= calls[c].messages[j].timestamp

\* what the code does: the synthesized timestamps increase within the
\* messages of one role
C21_MonotonicWithinRole ==
    \A c \in Returned :
        \A i, j \in Synthesized(c) :
            (i < j /\ calls[c].messages[i].type = calls[c].messages[j].type)
                => calls[c].messages[i].timestamp < calls[c].messages[j].timestamp

\* two user messages and then an assistant message, all synthesized: the
\* assistant message is dated before the second user message
C21_Witness ==
    /\ Returned # {}
    /\ Synthesized(1) = {1, 2, 3}
    /\ calls[1].messages[1].type = "user" /\ calls[1].messages[2].type = "user"
    /\ calls[1].messages[3].type = "assistant"
    /\ calls[1].messages[1].timestamp < calls[1].messages[2].timestamp
    /\ calls[1].messages[3].timestamp < calls[1].messages[2].timestamp

\* C22: the timestamp of an assistant message is the maximum timestamp of
\* the bubbles merged into it, and differs from it only when that maximum is
\* zero
C22_AssistantTimestamp ==
    \A c \in Returned :
        /\ Len(calls[c].messages) = Len(Groups)
        /\ \A g \in 1..Len(Groups) :
              Groups[g].type = "assistant" =>
                 /\ GroupStamp(Groups[g]) # 0
                       => calls[c].messages[g].timestamp = GroupStamp(Groups[g])
                 /\ calls[c].messages[g].timestamp # GroupStamp(Groups[g])
                       => (GroupStamp(Groups[g]) = 0 /\ Anchor # 0)

\* an assistant message of a bubble without timestamp and a bubble with one
C22_Witness ==
    /\ Returned # {}
    /\ Len(Groups) = 1 /\ Groups[1].type = "assistant"
    /\ Len(Groups[1].bubbles) = 2
    /\ Stamp(Groups[1].bubbles[1]) = 0 /\ Stamp(Groups[1].bubbles[2]) = T0
    /\ calls[1].messages[1].timestamp = T0

\* an assistant message whose bubbles carry no timestamp, dated by the anchor
C22_WitnessSynthetic ==
    /\ Returned # {}
    /\ Len(Groups) = 1 /\ Groups[1].type = "assistant"
    /\ Len(Groups[1].bubbles) = 2 /\ GroupStamp(Groups[1]) = 0
    /\ calls[1].messages[1].timestamp = Anchor /\ Anchor # 0

\* the latest positive timestamp of the bubbles as given, of the metadata
\* record's own fields, and of its embedded conversation array; 0 if none
FromBubbles ==
    MaxOf({t \in UNION {{b.timestamp, b.createdAt, b.updatedAt} :
                            b \in Range(ComposerBubbles(given))} : t > 0})

FromRecord == IF composerData.createdAt > 0 THEN composerData.createdAt ELSE 0

FromArray == MaxOf({t \in Range(composerData.conversation) : t > 0})

\* C23: getLatestTimestampForComposer gives the latest timestamp of the
\* bubbles; only if they have none, that of the metadata record's own fields;
\* only if these have none either, that of the embedded conversation array
C23_ResolutionOrder ==
    Called =>
    getLatestTimestampForComposer(given, composerData) =
        IF FromBubbles # 0 THEN FromBubbles
        ELSE IF FromRecord # 0 THEN FromRecord
        ELSE FromArray

\* what the code does: when the bubbles have no timestamp, the latest of the
\* metadata record's own fields and of its conversation array together
C23_RecordAndArrayTogether ==
    Called =>
    getLatestTimestampForComposer(given, composerData) =
        IF FromBubbles # 0 THEN FromBubbles
        ELSE IF FromRecord >= FromArray THEN FromRecord
        ELSE FromArray

\* bubbles without timestamp under a record dated T0 whose conversation array
\* holds T1: the message is dated from T1
C23_Witness ==
    /\ Returned # {}
    /\ FromBubbles = 0 /\ FromRecord = T0 /\ FromArray = T1 /\ T0 < T1
    /\ Len(calls[1].messages) >= 1
    /\ calls[1].messages[1].timestamp = T1

\* a bubble dated T0 under a record whose conversation array holds T1: the
\* bubble's timestamp is the anchor
C23_WitnessBubbles ==
    /\ Returned # {}
    /\ FromBubbles = T0 /\ FromArray = T1 /\ T0 < T1
    /\ Anchor = T0

\* what a thinking payload contributes: its trimmed text, or the placeholder
\* when the payload is empty
PayloadBlock(b) ==
    IF b.thinking[1] \in {<<>>, <<"">>} THEN Str("_[Assistant thinking...]_")
    ELSE b.thinking[1]

WithPayload(group) ==
    {i \in 1..Len(group.bubbles) : group.bubbles[i].thinking # <<>>}

NoTwoEqual(xs) == \A i, j \in 1..Len(xs) : i # j => xs[i] # xs[j]

C24_WitnessUser ==
    /\ Returned # {}
    /\ \E g \in 1..Len(Groups) :
          /\ Groups[g].type = "user"
          /\ WithPayload(Groups[g]) # {}
          /\ calls[1].messages[g].content.thinking_blocks = <<>>

\* the bubble mapping with the entries i and i + 1 in the other insertion order
Swapped(i) ==
    <<[k \in 1..Len(ComposerBubbles(given)) |->
          IF k = i THEN ComposerBubbles(given)[i + 1]
          ELSE IF k = i + 1 THEN ComposerBubbles(given)[i]
          ELSE ComposerBubbles(given)[k]]>>

\* the two bubbles have the same place in the sort: the same hint position,
\* or none, and the same timestamp
Tied(a, b) ==
    /\ Stamp(a) = Stamp(b)
    /\ Hint # <<>> =>
          OrderIndex(ComposerBubbles(given), Hint, a.id)
              = OrderIndex(ComposerBubbles(given), Hint, b.id)

\* C25: the messages are the same for every insertion order of the bubble
\* mapping
C25_AnyInsertionOrder ==
    \A c \in Returned :
        \A i \in 1..(Len(ComposerBubbles(given)) - 1) :
            \A t \in Clock :
                reconstructConversation(Swapped(i), tables, composerData, t).messages
                    = calls[c].messages

\* what the code does: the messages are the same for the insertion orders
\* that differ in the order of bubbles of different places in the sort;
\* bubbles of the same place come in their insertion order
C25_InsertionOrderOfTies ==
    \A c \in Returned :
        \A i \in 1..(Len(ComposerBubbles(given)) - 1) :
            ~Tied(ComposerBubbles(given)[i], ComposerBubbles(given)[i + 1]) =>
                \A t \in Clock :
                    reconstructConversation(Swapped(i), tables, composerData, t).messages
                        = calls[c].messages

\* two bubbles of different timestamps, neither named by the hint, come in
\* timestamp order although inserted in the other order; two bubbles without
\* timestamp come in insertion order
C25_Witness ==
    /\ Returned # {}
    /\ Len(Entries) = 3
    /\ ~Named(1) /\ ~Named(2) /\ ~Named(3)
    /\ Stamp(Entries[1]) > Stamp(Entries[2]) /\ Stamp(Entries[2]) > 0
    /\ Stamp(Entries[3]) = Stamp(Entries[2])
    /\ calls[1].messages[1].id = "b2"
    /\ calls[1].messages[2].id = "b3"
    /\ calls[1].messages[3].id = "b1"

\* neither the parameters nor the text of rawArgs have a shape that names a
\* tool
NoShape(toolData, r) ==
    /\ IsMapping(r.parameters)
    /\ ~PathLike(r.parameters, Has)
    /\ \A k \in {"command", "pattern", "query", "relative_workspace_path"} :
          ~Has(r.parameters, k)
    /\ \A w \in {"file_path", "path", "command", "pattern", "query",
                  "relative_workspace_path"} : ~Includes(toolData.rawArgs, w)

\* C26: the sentinel unknown_tool is never the resolved name; when neither a
\* name nor the shape of the parameters or of the rawArgs text names the
\* tool, an invocation whose name is the sentinel resolves to Unknown Tool
\* and one without any name to Tool.
C26_FinalFallback ==
    \A c \in Returned : \A t \in GivenTools : \A r \in RecordsOf(c, t) :
        /\ r.tool_name # "unknown_tool"
        /\ (FirstAlias(t) \in {"", "unknown_tool"} /\ NoShape(t, r))
              => r.tool_name
                   = (IF FirstAlias(t) = "unknown_tool" THEN "Unknown Tool" ELSE "Tool")

\* the part of C26 the code has: without any name and without a shape, and
\* without the word unknown_tool in the rawArgs text, the name is Tool
C26_ToolWithoutName ==
    \A c \in Returned : \A t \in GivenTools : \A r \in RecordsOf(c, t) :
        (NoAlias(t) /\ NoShape(t, r) /\ ~Includes(t.rawArgs, "unknown_tool"))
            => r.tool_name = "Tool"

\* a call returned with the sentinel as the resolved name
C26_SentinelKept ==
    \E c \in Returned : \E t \in GivenTools : \E r \in RecordsOf(c, t) :
        /\ t.name = "unknown_tool"
        /\ t.rawArgs.form = "absent"
        /\ r.tool_name = "unknown_tool"

\* the run of the ordered sequence that holds place p, for runs that end at
\* the places of cuts
RunOf(cuts, p) == 1 + Cardinality({x \in cuts : x < p})

\* how often the code blocks of message m hold the bubble id
HeldBy(messages, m, id) ==
    Cardinality({i \in 1..Len(messages[m].content.code_blocks) :
                    messages[m].content.code_blocks[i].code = id})

\* the messages are the runs of the content-bearing bubbles that cuts makes,
\* in order: a bubble with text is merged once into the message of its run
\* and into no other, and the id of a message is the id of a bubble of its
\* run
PartitionedAt(messages, cuts) ==
    /\ Len(messages) = IF OrderedCarrying = <<>> THEN 0 ELSE Cardinality(cuts) + 1
    /\ \A p \in 1..Len(OrderedCarrying) :
          OrderedCarrying[p].text # NoText =>
              \A m \in 1..Len(messages) :
                  HeldBy(messages, m, OrderedCarrying[p].id)
                      = (IF m = RunOf(cuts, p) THEN 1 ELSE 0)
    /\ \A m \in 1..Len(messages) :
          \E p \in 1..Len(OrderedCarrying) :
              RunOf(cuts, p) = m /\ messages[m].id = OrderedCarrying[p].id

\* C27: the messages partition the content-bearing bubbles into contiguous
\* runs of the ordered sequence, in that order: each bubble is merged into
\* exactly one message, the id of a message is the id of one of its bubbles,
\* and no two messages have the same id.
C27_Partition ==
    \A c \in Returned :
        /\ \E cuts \in SUBSET (1..(Len(OrderedCarrying) - 1)) :
              PartitionedAt(calls[c].messages, cuts)
        /\ \A m, n \in 1..Len(calls[c].messages) :
              calls[c].messages[m].id = calls[c].messages[n].id => m = n

\* a call returned two messages for three bubbles with text: two assistant
\* bubbles merged into one message, then a user message
C27_Witness ==
    /\ Returned # {}
    /\ Len(OrderedCarrying) = 3
    /\ \A p \in 1..3 : OrderedCarrying[p].text # NoText
    /\ Len(calls[1].messages) = 2
    /\ PartitionedAt(calls[1].messages, {2})

\* a call returned a message whose id is not the id of its first bubble
C27_WitnessLaterId ==
    /\ Returned # {}
    /\ Len(OrderedCarrying) >= 2
    /\ OrderedCarrying[1].text = NoText
    /\ calls[1].messages[1].id = OrderedCarrying[2].id

\* the call c has returned, and no other call uses its paths
DoneAlone(c) ==
    /\ proc[c].pc = "done"
    /\ \A d \in Commands \ {c} :
          proc[d].pc = "idle" \/ proc[d].tempDbPath # proc[c].tempDbPath

\* C28: a call of extractCursorDiskKV that has returned has left none of its
\* temporary files on disk: not the copy of the database, not its -wal and
\* not its -shm file.
C28_NoTempFilesLeft ==
    \A c \in Commands :
        DoneAlone(c) => \A suffix \in {"db", "wal", "shm"} : TempFile(c, suffix) \notin disk

\* what the code has: a call that returned the data of a store that has a
\* -wal file, alone on its paths, has left no temporary file
C28_NoTempFilesAfterData ==
    \A c \in Commands :
        (DoneAlone(c) /\ proc[c].result = "data" /\ store.wal /\ ~proc[c].overlapped)
            => \A suffix \in {"db", "wal", "shm"} : TempFile(c, suffix) \notin disk

\* a call returned the data of a store without -wal file and left the copy
\* of the -shm file
C28_ShmLeft ==
    \E c \in Commands :
        /\ DoneAlone(c) /\ proc[c].result = "data" /\ ~proc[c].overlapped
        /\ ~store.wal
        /\ TempFile(c, "shm") \in disk

\* a call returned nothing after an error of the open or the query and left
\* the copy of the database
C28_DbLeft ==
    \E c \in Commands :
        /\ DoneAlone(c) /\ proc[c].result = "empty" /\ ~proc[c].overlapped
        /\ TempFile(c, "db") \in disk

\* C29: two calls of extractCursorDiskKV that overlap never have the same
\* temporary path, and a call that overlapped another and met no error of
\* its own returns the data of the store: when the store is there, a call
\* returns nothing only if its own snapshot is still on disk, unread.
C29_OwnSnapshot ==
    \A c, d \in Commands :
        (c # d /\ proc[c].overlapped /\ proc[d].overlapped
              /\ proc[c].pc # "idle" /\ proc[d].pc # "idle") =>
            /\ proc[c].tempDbPath # proc[d].tempDbPath
            /\ (proc[c].pc = "done" /\ proc[d].pc = "done"
                  /\ proc[c].result = "empty" /\ proc[d].result = "data")
                  => (~store.db \/ TempFile(c, "db") \in disk)

\* two overlapping calls made the same temporary path, one returned the data
\* and deleted the snapshot, and the other returned nothing
C29_SnapshotDeleted ==
    \E c, d \in Commands :
        /\ c # d /\ proc[c].overlapped /\ proc[d].overlapped
        /\ proc[c].tempDbPath = proc[d].tempDbPath
        /\ proc[c].pc = "done" /\ proc[c].result = "empty"
        /\ proc[d].pc = "done" /\ proc[d].result = "data"
        /\ store.db /\ TempFile(c, "db") \notin disk

\* what the code has: two overlapping calls that read different clock values
\* have different temporary paths
C29_DistinctWhenClockDiffers ==
    [][\A c \in Commands :
          (Start(c) /\ \E d \in Commands \ {c} :
                          Running(d) /\ proc[d].tempDbPath # now)
              => \A d \in Commands \ {c} : proc'[c].tempDbPath # proc'[d].tempDbPath]_vars

\* every api_req_started event has a text that is JSON, or none
ValidPayloads ==
    \A i \in 1..Len(uiMessages) :
        MessageType(uiMessages[i]) = "api_req_started" => uiMessages[i].text.form # "plain"

\* the places of the text and api_req_started events
ClosingEvents ==
    {i \in 1..Len(uiMessages) :
        MessageType(uiMessages[i]) \in {"text", "api_req_started"}}

\* the places after event i up to the next text or api_req_started event
Segment(i) ==
    {j \in (i + 1)..Len(uiMessages) : \A k \in (i + 1)..j : k \notin ClosingEvents}

\* the message of the text or api_req_started event i is the one with as
\* many such events up to it
Rank(i) == Cardinality({j \in ClosingEvents : j <= i})

\* the events of the segment of event i that pass the test, in log order
SegmentEvents(i, Test(_)) ==
    SelectSeq([j \in 1..Len(uiMessages) |-> uiMessages[j]],
              LAMBDA e : e.ts \div 3000 \in Segment(i) /\ Test(e))

\* the assistant message holds what the events of the segment of event i
\* add, and nothing of any other event: the texts of the reasoning events,
\* a tool call for each tool event whose text is JSON, and a piece of
\* content for each other tool event and each other event that has a text
HoldsSegment(message, i) ==
    /\ message.thinking
          = [n \in 1..Len(SegmentEvents(i, LAMBDA e : MessageType(e) = "reasoning")) |->
                SegmentEvents(i, LAMBDA e : MessageType(e) = "reasoning")[n].text.value[1]]
    /\ SelectSeq([n \in 1..Len(message.toolCalls) |->
                    IF "timestamp" \in DOMAIN message.toolCalls[n]
                    THEN message.toolCalls[n].timestamp ELSE 0],
                 LAMBDA t : t # 0)
          = [n \in 1..Len(SegmentEvents(i, LAMBDA e : MessageType(e) = "tool"
                                                       /\ e.text.form = "json")) |->
                SegmentEvents(i, LAMBDA e : MessageType(e) = "tool"
                                             /\ e.text.form = "json")[n].ts]
    /\ SelectSeq([n \in 1..Len(message.content) |-> message.content[n].text],
                 LAMBDA t : TRUE)
          = [n \in 1..Len(SegmentEvents(i, LAMBDA e :
                               \/ MessageType(e) = "tool" /\ e.text.form # "json"
                               \/ /\ MessageType(e) \notin {"reasoning", "tool",
                                                              "checkpoint_created"}
                                  /\ HasText(e))) |->
                SegmentEvents(i, LAMBDA e :
                               \/ MessageType(e) = "tool" /\ e.text.form # "json"
                               \/ /\ MessageType(e) \notin {"reasoning", "tool",
                                                              "checkpoint_created"}
                                  /\ HasText(e))[n].text]

\* the text and api_req_started events before the place the loop is at
Closed == {i \in ClosingEvents : i < position}

\* C30: for a log whose api_req_started events have JSON texts, the call
\* does not throw. While the loop runs, an assistant message is open exactly
\* when the last text or api_req_started event so far is an api_req_started
\* event, and every earlier such event has its message in the list. After
\* the return there is one user message for each text event and one
\* assistant message for each api_req_started event, in log order; an
\* assistant message holds what the events up to the next text or
\* api_req_started event add, so that an event with no open assistant
\* message adds nothing.
C30_ClineAssembly ==
    ValidPayloads =>
        /\ position # -1
        /\ position >= 1 =>
              /\ (currentMessage # <<>>) =
                    (Closed # {} /\ \A i \in Closed :
                        (\A j \in Closed : j <= i)
                            => MessageType(uiMessages[i]) = "api_req_started")
              /\ Len(clineMessages)
                    = Cardinality(Closed) - (IF currentMessage # <<>> THEN 1 ELSE 0)
        /\ position = 0 =>
              /\ Len(clineMessages) = Cardinality(ClosingEvents)
              /\ \A i \in ClosingEvents :
                    /\ clineMessages[Rank(i)].timestamp = uiMessages[i].ts
                    /\ IF MessageType(uiMessages[i]) = "text"
                       THEN /\ clineMessages[Rank(i)].role = "user"
                            /\ clineMessages[Rank(i)].content = uiMessages[i].text
                       ELSE /\ clineMessages[Rank(i)].role = "assistant"
                            /\ HoldsSegment(
                                  [clineMessages[Rank(i)] EXCEPT
                                     !.content = SelectSeq(@, LAMBDA c : c.k # "api")], i)

\* a call returned for a log of a reasoning event, an api_req_started event
\* and a text event: an assistant message without thinking, then a user
\* message
C30_Witness ==
    /\ position = 0 /\ Len(uiMessages) = 3
    /\ MessageType(uiMessages[1]) = "reasoning"
    /\ MessageType(uiMessages[2]) = "api_req_started"
    /\ MessageType(uiMessages[3]) = "text"
    /\ Len(clineMessages) = 2
    /\ clineMessages[1].role = "assistant" /\ clineMessages[1].thinking = <<>>
    /\ clineMessages[2].role = "user"

\* a call returned the assistant message that was open at the end of the
\* log, with the tool call and the thinking of the events after it
C30_WitnessLastOpen ==
    /\ position = 0 /\ Len(uiMessages) = 3
    /\ MessageType(uiMessages[1]) = "api_req_started"
    /\ MessageType(uiMessages[2]) = "tool" /\ uiMessages[2].text.form = "json"
    /\ MessageType(uiMessages[3]) = "reasoning"
    /\ Len(clineMessages) = 1
    /\ clineMessages[1].thinking # <<>>
    /\ clineMessages[1].toolCalls # <<>>
====
